---- MODULE Spec2Model ----
(***************************************************************************)
(* A model of the request-processing core of vii: the service graph        *)
(* resolver (resolveServices), pipeline compilation at Mount               *)
(* (compilePipeline), and the two pipeline executors                        *)
(* (compiledPipeline.serve and the per-request fallback App.serveFor),     *)
(* the request context store (WithValidated, WithValid, ProvideKey), and   *)
(* the WebSocket connection worker (serveWebSocket, dispatchWS, wsWriter). *)
(*                                                                         *)
(* Service instances are numbered 1..n.  What the program declares about   *)
(* them (concrete type, ServiceKey(), Services(), Validators()) is program *)
(* data, held in the sv* variables and fixed by Init.                      *)
(***************************************************************************)
EXTENDS Integers, Sequences, FiniteSets, TLC

VARIABLES
    svType,     \* instance -> concrete type (reflect.TypeOf(s)), a type id
    svKey,      \* instance -> ServiceKey() result, or NoKeyer
    svDeps,     \* instance -> Services() result (sequence of instances or Nil)
    svVals,     \* instance -> Validators() result (sequence of validators or Nil)
    resRoots,   \* resolver harness: the roots handed to resolveServices
    resOut,     \* resolver harness: the result of resolveServices
    resAgain,   \* resolver harness: the result of a second run on the same input
    services,   \* App.services (global services, in Use order)
    appOnErr,   \* App.OnErr # nil
    mux,        \* App.mux: path -> NoHandler or a mountedHandler
    mountRes,   \* outcome of the last Mount call
    crashed,    \* an unrecovered panic ended the process
    pc,         \* position of the request being served
    cur,        \* the request being served (path, executor, nodes, indices)
    log,        \* calls made while serving the current request, in order
    ret,        \* return value of the executor for the current request
    heap,       \* context store: the validatedStore objects allocated, by address
    reqs,       \* context store: the requests made so far, each with its store address
    wsRoutes,   \* WebSocket: the methods of App.mux that have a route for the path
    wsPc,       \* WebSocket: position of the connection's worker in serveWebSocket
    wsStack,    \* WebSocket: the phase invocations running on the worker, innermost last
    wsTrace,    \* WebSocket: what happened on the connection, in order
    wsNodes,    \* WebSocket: the number of service nodes of each route's pipeline
    wsBase,     \* WebSocket: the store of the connection's base request
    wsProg,     \* WebSocket: what the routes' code does (which calls write, fail, panic)
    conns,      \* WebSocket: connections served side by side, each with its own worker
    mwApp,      \* middleware: GlobalMiddleware, the group's middleware, the registered handler
    mwReq,      \* middleware: the request in the handler chain, and callOrder
    rlSvc,      \* rate limit: the RateLimitService (its state map, once made)
    rlNow,      \* rate limit: the clock read by Now()
    rlCalls,    \* rate limit: the calls of Before in progress
    rlLog,      \* rate limit: the calls of Before that returned, in order
    dsApp,      \* dispatch: the mux patterns per method, App.static, App.OnNotFound
    dsOut,      \* dispatch: what the last call of the App returned or invoked
    toReq,      \* MwTimeout: one request, its context, its two goroutines
    plRoute,    \* pipeline with store: the route's validators and its resolved nodes
    plAt,       \* pipeline with store: the position of serve in its stages
    plReq,      \* pipeline with store: the store of the request serve holds
    plLog       \* pipeline with store: the calls made, with the store each was handed

vars == <<svType, svKey, svDeps, svVals, resRoots, resOut, resAgain, services, appOnErr,
          mux, mountRes, crashed, pc, cur, log, ret, heap, reqs,
          wsRoutes, wsPc, wsStack, wsTrace, wsNodes, wsBase, wsProg, conns,
          mwApp, mwReq, rlSvc, rlNow, rlCalls, rlLog,
          dsApp, dsOut, toReq, plRoute, plAt, plReq, plLog>>

worldVars == <<svType, svKey, svDeps, svVals>>
dsVars == <<dsApp, dsOut>>
plVars == <<plRoute, plAt, plReq, plLog>>
sideVars == <<dsVars, toReq, plVars>>
harnessVars == <<resRoots, resOut, resAgain>>
appVars == <<services, appOnErr, mux, mountRes, crashed>>
reqVars == <<pc, cur, log, ret>>
storeVars == <<heap, reqs>>
wsVars == <<wsRoutes, wsPc, wsStack, wsTrace, wsNodes, wsBase, wsProg, conns>>
mwVars == <<mwApp, mwReq>>
rlVars == <<rlSvc, rlNow, rlCalls, rlLog>>

----------------------------------------------------------------------------
(* Bounds of the model *)

\* number of service instances in the resolver harness
NumSvc == 4
\* total number of Services() entries declared in the resolver harness
MaxEdges == 2
\* number of root services handed to the resolver (global plus route)
MaxRoots == 2
\* number of route-level validators
MaxVals == 2
\* context store: writes made in one run
MaxWrites == 2

----------------------------------------------------------------------------
(* Values *)

\* a nil Service (instances are numbered from 1)
Nil == 0
\* a nil AnyValidator
NilVal == <<>>
\* the type does not implement ServiceKeyer
NoKeyer == "nokeyer"
\* no identity named: resolution did not panic
NoPanic == <<>>

Inst == DOMAIN svDeps

RECURSIVE SeqsUpTo(_, _)
SeqsUpTo(S, n) ==
    IF n = 0 THEN {<<>>}
    ELSE LET shorter == SeqsUpTo(S, n - 1)
         IN shorter \cup {Append(q, x) : q \in {p \in shorter : Len(p) = n - 1}, x \in S}

Range(q) == {q[k] : k \in 1..Len(q)}

----------------------------------------------------------------------------
(* resolveServices *)

\* Concrete types are numbered; the types t and t + PkgStride are types of one
\* name declared in two packages of one name, which print alike.
PkgStride == 10

\* reflect.Type.String(): the package name and the type name, not the import path
typeString(t) == t % PkgStride

\* variant of serviceID: the ServiceKey() is left out of the identity
serviceIDTypeOnly(s) ==
    IF s = Nil THEN <<>> ELSE <<typeString(svType[s])>>

\* serviceID: the type string, refined by "|" + ServiceKey() for a ServiceKeyer
serviceID(s) ==
    IF s = Nil THEN <<>>
    ELSE IF svKey[s] # NoKeyer THEN <<typeString(svType[s]), "|", svKey[s]>>
    ELSE <<typeString(svType[s])>>

\* a serviceNode{svc, validators}
serviceNode(s) == [svc |-> s, validators |-> svVals[s]]

\* the resolver's local state as resolveServices starts
resolveStart == [out |-> <<>>, visiting |-> {}, visited |-> {}, panic |-> NoPanic]

RECURSIVE visit(_, _)
RECURSIVE visitEach(_, _)

\* variant of visitEach: the sub-services are visited in an order that differs
\* from one run to the next, as when ranging over a map
RECURSIVE visitInOrder(_, _)
visitInOrder(deps, st) ==
    IF deps = <<>> \/ st.panic # NoPanic THEN st
    ELSE visitInOrder(Tail(deps), visit(Head(deps), st))

visitEachUnordered(deps, st) ==
    visitInOrder(IF resOut.run THEN [k \in 1..Len(deps) |-> deps[Len(deps) + 1 - k]] ELSE deps, st)

\* for _, dep := range ws.Services() { visit(dep) }; a panic unwinds the loop
visitEach(deps, st) ==
    IF deps = <<>> \/ st.panic # NoPanic THEN st
    ELSE visitEach(Tail(deps), visit(Head(deps), st))

\* variant of visit: a re-entered identity is skipped instead of panicking
visitSkippingCycles(s, st) ==
    IF s = Nil THEN st
    ELSE LET id == serviceID(s) IN
         IF id \in st.visited \/ id \in st.visiting THEN st
         ELSE LET sub == visitEach(svDeps[s], [st EXCEPT !.visiting = @ \cup {id}])
              IN [sub EXCEPT !.out = Append(@, serviceNode(s)),
                             !.visiting = @ \ {id},
                             !.visited = @ \cup {id}]

\* variant of visit: the node is appended before its sub-services are visited
visitPreOrder(s, st) ==
    IF s = Nil THEN st
    ELSE LET id == serviceID(s) IN
         IF id \in st.visited THEN st
         ELSE IF id \in st.visiting THEN [st EXCEPT !.panic = id]
         ELSE LET sub == visitEach(svDeps[s], [st EXCEPT !.out = Append(@, serviceNode(s)),
                                                         !.visiting = @ \cup {id}])
              IN IF sub.panic # NoPanic THEN sub
                 ELSE [sub EXCEPT !.visiting = @ \ {id},
                                  !.visited = @ \cup {id}]

\* the closure visit of resolveServices
visit(s, st) ==
    IF s = Nil THEN st
    ELSE LET id == serviceID(s) IN
         IF id \in st.visited THEN st
         ELSE IF id \in st.visiting THEN [st EXCEPT !.panic = id]
         ELSE LET sub == visitEach(svDeps[s], [st EXCEPT !.visiting = @ \cup {id}])
              IN IF sub.panic # NoPanic THEN sub
                 ELSE [sub EXCEPT !.out = Append(@, serviceNode(s)),
                                  !.visiting = @ \ {id},
                                  !.visited = @ \cup {id}]

\* resolveServices(roots): the node list, or the panic naming an identity
resolveServices(roots) ==
    LET st == visitEach(roots, resolveStart)
    IN IF st.panic # NoPanic
       THEN [run |-> TRUE, panic |-> st.panic, out |-> <<>>]
       ELSE [run |-> TRUE, panic |-> NoPanic, out |-> st.out]

\* the harness before resolveServices has run
NotResolved == [run |-> FALSE, panic |-> NoPanic, out |-> <<>>]

----------------------------------------------------------------------------
(* Declared service graphs *)

\* validators are opaque values named by their owner (0: the route) and position
val(owner, j) == <<"val", owner, j>>

\* Services() lists given as a sequence of <<from, to>> edges, sources ascending;
\* a list may hold a nil Service
EdgeLists(I) ==
    {E \in SeqsUpTo(I \X (I \cup {Nil}), MaxEdges) :
        \A k \in 1..(Len(E) - 1) : E[k][1] <= E[k + 1][1]}

RECURSIVE targetsOf(_, _)
targetsOf(E, i) ==
    IF E = <<>> THEN <<>>
    ELSE IF Head(E)[1] = i THEN <<Head(E)[2]>> \o targetsOf(Tail(E), i)
    ELSE targetsOf(Tail(E), i)

\* How identities may coincide: all types distinct, or one pair of instances
\* of one type: unkeyed, or ServiceKeyers with equal or different keys; or one
\* pair of instances of two types that print alike.
PairModes == {"plain", "samekey", "emptykey", "diffkey", "samename"}

IdentChoices(I) ==
    {[a |-> 0, b |-> 0, mode |-> "distinct"]}
    \cup {[a |-> p[1], b |-> p[2], mode |-> m] :
             p \in {q \in I \X I : q[1] < q[2]}, m \in PairModes}

typeOf(c, i) ==
    IF c.mode = "distinct" \/ i # c.b THEN i
    ELSE IF c.mode = "samename" THEN c.a + PkgStride
    ELSE c.a

keyOf(c, i) ==
    IF c.mode \in {"distinct", "plain", "samename"} \/ i \notin {c.a, c.b} THEN NoKeyer
    ELSE IF c.mode = "emptykey" THEN ""
    ELSE IF c.mode = "samekey" \/ i = c.a THEN "a"
    ELSE "b"

\* instance i declares (i % 3) validators of its own
valsOf(i) == [j \in 1..(i % 3) |-> val(i, j)]

HarnessRoots == {[k \in 1..n |-> k] : n \in 1..MaxRoots}

----------------------------------------------------------------------------
(* The idle application: New() *)

Path == "/p"

\* error values: nil, the ErrHalt sentinel, or the error a given call returned
NilErr == [e |-> "nil", stage |-> "", node |-> 0, idx |-> 0]
ErrHalt == [e |-> "halt", stage |-> "", node |-> 0, idx |-> 0]
errOf(stage, n, j) == [e |-> "err", stage |-> stage, node |-> n, idx |-> j]

\* what a validator, hook or handler may return
Returns(stage, n, j) == {NilErr, ErrHalt, errOf(stage, n, j)}

NoRoute == [validators |-> <<>>, services |-> <<>>, onMountErr |-> FALSE]
NoPipe == [routeValidators |-> <<>>, nodes |-> <<>>]
\* no mountedHandler registered for the path
NoHandler == [mounted |-> FALSE, route |-> NoRoute, compiled |-> FALSE, pipe |-> NoPipe]

NoReq == [exec |-> "", route |-> NoRoute, rv |-> <<>>, nodes |-> <<>>,
          ni |-> 0, vi |-> 0, err |-> NilErr]
NoRet == [kind |-> "none", err |-> NilErr, id |-> NoPanic]
\* the last Mount call: how it ended, the identity a panic named, the roots it resolved
NoMount == [kind |-> "none", id |-> NoPanic, roots |-> <<>>]

\* New()
AppNew ==
    /\ services = <<>>
    /\ appOnErr = TRUE
    /\ mux = [p \in {Path} |-> NoHandler]
    /\ mountRes = NoMount
    /\ crashed = FALSE

ReqIdle ==
    /\ pc = "idle"
    /\ cur = NoReq
    /\ log = <<>>
    /\ ret = NoRet

\* The context store before any write: one request, no store in its context.
\* a value is its dynamic type and payload; the nil value of the interface
\* type has no dynamic type
NilIface == [dyn |-> 0, v |-> 0]

\* a request whose context carries no store
NoStore == 0
NoWrite == [op |-> "", T |-> 0, name |-> "", v |-> NilIface]
bareRequest == [store |-> NoStore, from |-> 0, by |-> NoWrite]

StoreNew ==
    /\ heap = <<>>
    /\ reqs = <<bareRequest>>

\* NewApp() and a Group, nothing registered, no request
NoMwReq == [pc |-> "idle", todo |-> <<>>, stack |-> <<>>, callOrder |-> <<>>]

MwIdle ==
    /\ mwApp = [global |-> <<>>, group |-> <<>>, mounted |-> FALSE, route |-> <<>>]
    /\ mwReq = NoMwReq

\* a RateLimitService that has not been called
RlIdle ==
    /\ rlSvc = [made |-> FALSE, state |-> <<>>, maxEntries |-> 0]
    /\ rlNow = 0
    /\ rlCalls = <<>>
    /\ rlLog = <<>>

\* NewApp(): no route, no static mount, no OnNotFound; nothing dispatched
NoDispatch == [op |-> "none", method |-> "", path |-> <<>>, by |-> "", idx |-> 0, err |-> FALSE]

DsIdle ==
    /\ dsApp = [routes |-> {}, static |-> <<>>, onNotFound |-> FALSE]
    /\ dsOut = NoDispatch

\* no request has reached the timeout middleware
NoToReq == [main |-> "idle", worker |-> "none", ctxDone |-> FALSE,
            secs |-> 0, clock |-> 0, status |-> 0, served |-> 0]

ToIdle == toReq = NoToReq

\* no pipeline has been compiled
NoPlAt == [pc |-> "idle", i |-> 0, err |-> "nil", start |-> NoStore]

PlIdle ==
    /\ plRoute = [validators |-> <<>>, nodes |-> <<>>]
    /\ plAt = NoPlAt
    /\ plReq = NoStore
    /\ plLog = <<>>

SideIdle == DsIdle /\ ToIdle /\ PlIdle

\* no WebSocket connection has been accepted
WsIdle ==
    /\ wsRoutes = {}
    /\ wsPc = "idle"
    /\ wsStack = <<>>
    /\ wsTrace = <<>>
    /\ wsNodes = 0
    /\ wsBase = NoStore
    /\ wsProg = [writes |-> {}, fails |-> {}, panics |-> FALSE]
    /\ conns = <<>>

----------------------------------------------------------------------------
(* Resolver harness: every declared graph within the bounds, resolved once *)

InitResolve ==
    /\ \E E \in EdgeLists(1..NumSvc), c \in IdentChoices(1..NumSvc) :
          /\ svDeps = [i \in 1..NumSvc |-> targetsOf(E, i)]
          /\ svType = [i \in 1..NumSvc |-> typeOf(c, i)]
          /\ svKey = [i \in 1..NumSvc |-> keyOf(c, i)]
    /\ svVals = [i \in 1..NumSvc |-> valsOf(i)]
    /\ resRoots \in HarnessRoots
    /\ resOut = NotResolved
    /\ resAgain = NotResolved
    /\ AppNew
    /\ ReqIdle
    /\ StoreNew
    /\ MwIdle
    /\ SideIdle
    /\ RlIdle
    /\ WsIdle

\* nodes = resolveServices(roots)
Resolve ==
    /\ ~resOut.run
    /\ resOut' = resolveServices(resRoots)
    /\ UNCHANGED <<worldVars, sideVars, mwVars, rlVars, resRoots, resAgain, appVars, reqVars, storeVars, wsVars>>

\* nodes = resolveServices(roots), once more on the same declared input
ResolveAgain ==
    /\ resOut.run
    /\ ~resAgain.run
    /\ resAgain' = resolveServices(resRoots)
    /\ UNCHANGED <<worldVars, sideVars, mwVars, rlVars, resRoots, resOut, appVars, reqVars, storeVars, wsVars>>

NextResolve == Resolve \/ ResolveAgain

SpecResolve == InitResolve /\ [][NextResolve]_vars

----------------------------------------------------------------------------
(* Graph notions used to state the claims, independent of the traversal *)

declared(s) == Range(svDeps[s]) \ {Nil}

RECURSIVE closure(_)
closure(S) ==
    LET more == S \cup UNION {declared(s) : s \in S}
    IN IF more = S THEN S ELSE closure(more)

\* the instances s declares, transitively
subServices(s) == closure(declared(s))

reachable(roots) == closure(Range(roots) \ {Nil})

onCycle(s) == s \in subServices(s)

cyclic(roots) == \E s \in reachable(roots) : onCycle(s)

oneInstancePerIdentity(roots) ==
    \A s, t \in reachable(roots) : serviceID(s) = serviceID(t) => s = t

ids(nodes) == [k \in 1..Len(nodes) |-> serviceID(nodes[k].svc)]

position(q, x) == CHOOSE k \in 1..Len(q) : q[k] = x

----------------------------------------------------------------------------
(* The application: declared services, routes, Use, Mount *)

\* Declared services of the application runs.
\* WChain: 2 depends on 1; 1 and 3 declare validators (3 a nil one first).
WChain ==
    [type |-> <<1, 2, 3>>,
     key  |-> <<NoKeyer, NoKeyer, NoKeyer>>,
     deps |-> << <<>>, <<1>>, <<>> >>,
     vals |-> << <<val(1, 1)>>, <<>>, <<NilVal, val(3, 2)>> >>]
\* WCycle: 2 and 3 depend on each other; 1 has the type of 2 and no sub-service.
WCycle ==
    [type |-> <<1, 1, 3>>,
     key  |-> <<NoKeyer, NoKeyer, NoKeyer>>,
     deps |-> << <<>>, <<3>>, <<2>> >>,
     vals |-> << <<>>, <<val(2, 1)>>, <<>> >>]

\* WKeyed: 1 and 2 are ServiceKeyers of one type with different keys; 3
\* depends on 1.
WKeyed ==
    [type |-> <<1, 1, 3>>,
     key  |-> <<"a", "b", NoKeyer>>,
     deps |-> << <<>>, <<>>, <<1>> >>,
     vals |-> << <<>>, <<val(2, 1)>>, <<>> >>]

Worlds == {WChain, WCycle, WKeyed}

\* the routes a caller may mount
RouteValidators == {[j \in 1..n |-> val(0, j)] : n \in 0..MaxVals}

Routes(room) ==
    {[validators |-> v, services |-> q, onMountErr |-> m] :
        v \in RouteValidators, q \in SeqsUpTo(Inst \cup {Nil}, room), m \in BOOLEAN}

Init ==
    /\ \E w \in Worlds :
          /\ svType = w.type
          /\ svKey = w.key
          /\ svDeps = w.deps
          /\ svVals = w.vals
    /\ resRoots = <<>>
    /\ resOut = NotResolved
    /\ resAgain = NotResolved
    /\ AppNew
    /\ ReqIdle
    /\ StoreNew
    /\ MwIdle
    /\ SideIdle
    /\ RlIdle
    /\ WsIdle

running == ~crashed /\ pc = "idle"

\* number of roots the mounted route and the global services declare together
rootCount == Len(services) + Len(mux[Path].route.services)

\* app.OnErr = f, or app.OnErr = nil
SetOnErr(f) ==
    /\ running
    /\ appOnErr # f
    /\ appOnErr' = f
    /\ UNCHANGED <<worldVars, sideVars, mwVars, rlVars, harnessVars, storeVars, wsVars, services, mux, mountRes, crashed, reqVars>>

\* App.Use(s): nil services are dropped
Use(s) ==
    /\ running
    /\ rootCount < MaxRoots
    /\ services' = IF s = Nil THEN services ELSE Append(services, s)
    /\ UNCHANGED <<worldVars, sideVars, mwVars, rlVars, harnessVars, storeVars, wsVars, appOnErr, mux, mountRes, crashed, reqVars>>

\* variant of compilePipeline: the global services are left out
compilePipelineRouteOnly(route) ==
    LET roots == route.services
        res == IF Len(roots) > 0 THEN resolveServices(roots)
               ELSE [run |-> TRUE, panic |-> NoPanic, out |-> <<>>]
    IN [panic |-> res.panic,
        pipe |-> [routeValidators |-> route.validators, nodes |-> res.out]]

\* variant of compilePipeline: the route's services are put before the global ones
compilePipelineRouteFirst(route) ==
    LET roots == route.services \o services
        res == IF Len(roots) > 0 THEN resolveServices(roots)
               ELSE [run |-> TRUE, panic |-> NoPanic, out |-> <<>>]
    IN [panic |-> res.panic,
        pipe |-> [routeValidators |-> route.validators, nodes |-> res.out]]

\* compilePipeline(app, route): the pipeline, or the resolver's panic
compilePipeline(route) ==
    LET roots == services \o route.services
        res == IF Len(roots) > 0 THEN resolveServices(roots)
               ELSE [run |-> TRUE, panic |-> NoPanic, out |-> <<>>]
    IN [panic |-> res.panic,
        pipe |-> [routeValidators |-> route.validators, nodes |-> res.out]]

\* what Mount leaves behind: the handler is registered first, then OnMount
\* runs, then the pipeline is compiled into the registered handler
mountOutcome(route) ==
    LET mh == [mounted |-> TRUE, route |-> route, compiled |-> FALSE, pipe |-> NoPipe]
        cp == compilePipeline(route)
        roots == services \o route.services
    IN IF route.onMountErr
       THEN [handler |-> mh, res |-> [kind |-> "error", id |-> NoPanic, roots |-> <<>>]]
       ELSE IF cp.panic # NoPanic
       THEN [handler |-> mh, res |-> [kind |-> "panic", id |-> cp.panic, roots |-> roots]]
       ELSE [handler |-> [mh EXCEPT !.compiled = TRUE, !.pipe = cp.pipe],
             res |-> [kind |-> "ok", id |-> NoPanic, roots |-> roots]]

\* App.Mount(method, path, route) on a path: a panic either ends the process or
\* is recovered by the caller
Mount(route, recovered) ==
    /\ running
    /\ ~mux[Path].mounted
    /\ LET mo == mountOutcome(route)
       IN /\ mux' = [mux EXCEPT ![Path] = mo.handler]
          /\ mountRes' = mo.res
          /\ crashed' = (mo.res.kind = "panic" /\ ~recovered)
          /\ (mo.res.kind # "panic" => recovered)
    /\ UNCHANGED <<worldVars, sideVars, mwVars, rlVars, harnessVars, storeVars, wsVars, services, appOnErr, reqVars>>

\* App.Mount with an empty path returns an error before registering anything
MountEmptyPath ==
    /\ running
    /\ mountRes.kind # "error"
    /\ ~mux[Path].mounted
    /\ mountRes' = [kind |-> "error", id |-> NoPanic, roots |-> <<>>]
    /\ UNCHANGED <<worldVars, sideVars, mwVars, rlVars, harnessVars, storeVars, wsVars, services, appOnErr, mux, crashed, reqVars>>

----------------------------------------------------------------------------
(* Serving a request: mountedHandler.ServeHTTP, compiledPipeline.serve and  *)
(* App.serveFor, one call per step                                          *)

event(ev, n, j, svc, res) == [ev |-> ev, node |-> n, idx |-> j, svc |-> svc, res |-> res]

returned(e) == [kind |-> "ret", err |-> e, id |-> NoPanic]

\* compiledPipeline.serve returns nil on ErrHalt; App.serveFor has no such case
haltStops(exec) == exec = "serve"

\* variant of callReturned: the result of the call made at `stage` is dropped
callReturnedUncheckedAt(stage, e, okPc, okCur) ==
    IF e = NilErr \/ (pc = stage /\ e.e = "err")
    THEN /\ pc' = okPc
         /\ cur' = okCur
         /\ ret' = ret
    ELSE IF haltStops(cur.exec) /\ e = ErrHalt
    THEN /\ pc' = "done"
         /\ cur' = cur
         /\ ret' = returned(NilErr)
    ELSE /\ pc' = "onErr"
         /\ cur' = [cur EXCEPT !.err = e]
         /\ ret' = ret

\* variant of callReturned: a failed route validator does not stop the request
callReturnedRouteValidatorUnchecked(e, okPc, okCur) ==
    callReturnedUncheckedAt("rv", e, okPc, okCur)

\* variant of callReturned: a failed After does not stop the reverse sweep
callReturnedAfterUnchecked(e, okPc, okCur) ==
    callReturnedUncheckedAt("after", e, okPc, okCur)

\* variant of callReturned: a failed Before unwinds through the After hooks of
\* the nodes already entered
callReturnedBeforeUnwinds(e, okPc, okCur) ==
    IF pc = "before" /\ e.e = "err"
    THEN /\ pc' = "after"
         /\ cur' = [cur EXCEPT !.ni = @ - 1]
         /\ ret' = ret
    ELSE callReturnedUncheckedAt("", e, okPc, okCur)

\* variant of callReturned: the After hooks run although the handler failed
callReturnedAfterOnHandlerError(e, okPc, okCur) ==
    IF pc = "handle" /\ e.e = "err"
    THEN /\ pc' = okPc
         /\ cur' = [okCur EXCEPT !.err = e]
         /\ ret' = ret
    ELSE callReturnedUncheckedAt("", e, okPc, okCur)

\* if err != nil { [if err == ErrHalt { return nil }] ...error hooks...; return err }
\* after a call returned e; okPc and okCur say how the executor goes on after nil
callReturned(e, okPc, okCur) ==
    IF e = NilErr
    THEN /\ pc' = okPc
         /\ cur' = okCur
         /\ ret' = ret
    ELSE IF haltStops(cur.exec) /\ e = ErrHalt
    THEN /\ pc' = "done"
         /\ cur' = cur
         /\ ret' = returned(NilErr)
    ELSE /\ pc' = "onErr"
         /\ cur' = [cur EXCEPT !.err = e]
         /\ ret' = ret

\* App.ServeHTTP with no handler for the path: OnNotFound
NotFound ==
    /\ running
    /\ ~mux[Path].mounted
    /\ log' = <<event("OnNotFound", 0, 0, Nil, NilErr)>>
    /\ pc' = "done"
    /\ ret' = returned(NilErr)
    /\ UNCHANGED <<worldVars, sideVars, mwVars, rlVars, harnessVars, storeVars, wsVars, appVars, cur>>

\* mountedHandler.ServeHTTP: h.pipe.serve when the pipeline was compiled,
\* App.serveFor otherwise
ServeHTTP ==
    /\ running
    /\ mux[Path].mounted
    /\ LET h == mux[Path]
       IN cur' = IF h.compiled
                 THEN [exec |-> "serve", route |-> h.route,
                       rv |-> h.pipe.routeValidators, nodes |-> h.pipe.nodes,
                       ni |-> 0, vi |-> 1, err |-> NilErr]
                 ELSE [exec |-> "serveFor", route |-> h.route,
                       rv |-> h.route.validators, nodes |-> <<>>,
                       ni |-> 0, vi |-> 1, err |-> NilErr]
    /\ pc' = "rv"
    /\ log' = <<>>
    /\ ret' = NoRet
    /\ UNCHANGED <<worldVars, sideVars, mwVars, rlVars, harnessVars, storeVars, wsVars, appVars>>

\* where the executor goes once the route validators are done
afterRouteValidators(exec) == IF exec = "serve" THEN "node" ELSE "resolve"

\* for _, v := range routeValidators: one validator (nil ones are skipped)
RouteValidator ==
    /\ pc = "rv"
    /\ IF cur.vi > Len(cur.rv)
       THEN /\ pc' = afterRouteValidators(cur.exec)
            /\ cur' = [cur EXCEPT !.ni = 1]
            /\ UNCHANGED <<log, ret>>
       ELSE IF cur.rv[cur.vi] = NilVal
       THEN /\ cur' = [cur EXCEPT !.vi = @ + 1]
            /\ UNCHANGED <<pc, log, ret>>
       ELSE \E e \in Returns("validate", 0, cur.vi) :
               /\ log' = Append(log, event("validate", 0, cur.vi, Nil, e))
               /\ callReturned(e, "rv", [cur EXCEPT !.vi = @ + 1])
    /\ UNCHANGED <<worldVars, sideVars, mwVars, rlVars, harnessVars, storeVars, wsVars, appVars>>

\* App.serveFor: roots and resolveServices on every request; a panic while
\* serving is recovered by net/http and ends the request
ResolveForRequest ==
    /\ pc = "resolve"
    /\ LET roots == services \o cur.route.services
           res == resolveServices(roots)
       IN IF Len(roots) > 0 /\ res.panic # NoPanic
          THEN /\ pc' = "done"
               /\ ret' = [kind |-> "panic", err |-> NilErr, id |-> res.panic]
               /\ cur' = cur
          ELSE /\ pc' = "node"
               /\ cur' = [cur EXCEPT !.nodes = IF Len(roots) > 0 THEN res.out ELSE <<>>]
               /\ ret' = ret
    /\ UNCHANGED <<worldVars, sideVars, mwVars, rlVars, harnessVars, storeVars, wsVars, appVars, log>>

\* for i := range nodes: the next node, or on to the handler
NextNode ==
    /\ pc = "node"
    /\ IF cur.ni > Len(cur.nodes)
       THEN pc' = "handle" /\ cur' = cur
       ELSE pc' = "sv" /\ cur' = [cur EXCEPT !.vi = 1]
    /\ UNCHANGED <<worldVars, sideVars, mwVars, rlVars, harnessVars, storeVars, wsVars, appVars, log, ret>>

\* for _, v := range n.validators: one validator of the node
NodeValidator ==
    /\ pc = "sv"
    /\ LET n == cur.nodes[cur.ni]
       IN IF cur.vi > Len(n.validators)
          THEN /\ pc' = "before"
               /\ UNCHANGED <<cur, log, ret>>
          ELSE IF n.validators[cur.vi] = NilVal
          THEN /\ cur' = [cur EXCEPT !.vi = @ + 1]
               /\ UNCHANGED <<pc, log, ret>>
          ELSE \E e \in Returns("validate", cur.ni, cur.vi) :
                  /\ log' = Append(log, event("validate", cur.ni, cur.vi, n.svc, e))
                  /\ callReturned(e, "sv", [cur EXCEPT !.vi = @ + 1])
    /\ UNCHANGED <<worldVars, sideVars, mwVars, rlVars, harnessVars, storeVars, wsVars, appVars>>

\* r, err = n.svc.Before(r, w)
Before ==
    /\ pc = "before"
    /\ \E e \in Returns("before", cur.ni, 0) :
          /\ log' = Append(log, event("before", cur.ni, 0, cur.nodes[cur.ni].svc, e))
          /\ callReturned(e, "node", [cur EXCEPT !.ni = @ + 1])
    /\ UNCHANGED <<worldVars, sideVars, mwVars, rlVars, harnessVars, storeVars, wsVars, appVars>>

\* the index the After loop starts at, and the index after i
\* variant of afterFirst: the sweep starts at the first node
afterFirstForward(nodes) == IF nodes = <<>> THEN 0 ELSE 1

afterFirst(nodes) == Len(nodes)
afterNext(i) == i - 1

\* route.Handle(r, w)
Handle ==
    /\ pc = "handle"
    /\ \E e \in Returns("handle", 0, 0) :
          /\ log' = Append(log, event("handle", 0, 0, Nil, e))
          /\ callReturned(e, "after", [cur EXCEPT !.ni = afterFirst(cur.nodes)])
    /\ UNCHANGED <<worldVars, sideVars, mwVars, rlVars, harnessVars, storeVars, wsVars, appVars>>

\* for i := len(nodes) - 1; i >= 0; i--: nodes[i].svc.After(r, w)
After ==
    /\ pc = "after"
    /\ IF cur.ni < 1 \/ cur.ni > Len(cur.nodes)
       THEN /\ pc' = "done"
            /\ ret' = returned(NilErr)
            /\ UNCHANGED <<cur, log>>
       ELSE \E e \in Returns("after", cur.ni, 0) :
               /\ log' = Append(log, event("after", cur.ni, 0, cur.nodes[cur.ni].svc, e))
               /\ callReturned(e, "after", [cur EXCEPT !.ni = afterNext(@)])
    /\ UNCHANGED <<worldVars, sideVars, mwVars, rlVars, harnessVars, storeVars, wsVars, appVars>>

\* route.OnErr(r, w, err); if app.OnErr != nil { app.OnErr(app, route, r, w, err) }
\* variant of reportError: the application hook is called before the route's
reportErrorAppFirst(e) ==
    (IF appOnErr THEN <<event("app.OnErr", 0, 0, Nil, e)>> ELSE <<>>)
    \o <<event("route.OnErr", 0, 0, Nil, e)>>

reportError(e) ==
    <<event("route.OnErr", 0, 0, Nil, e)>>
    \o (IF appOnErr THEN <<event("app.OnErr", 0, 0, Nil, e)>> ELSE <<>>)

\* the error hooks, then return err
OnErr ==
    /\ pc = "onErr"
    /\ log' = log \o reportError(cur.err)
    /\ pc' = "done"
    /\ ret' = returned(cur.err)
    /\ UNCHANGED <<worldVars, sideVars, mwVars, rlVars, harnessVars, storeVars, wsVars, appVars, cur>>

\* the executor has returned; the application is idle again
Return ==
    /\ pc = "done"
    /\ pc' = "idle"
    /\ cur' = NoReq
    /\ log' = <<>>
    /\ ret' = NoRet
    /\ UNCHANGED <<worldVars, sideVars, mwVars, rlVars, harnessVars, storeVars, wsVars, appVars>>

Next ==
    \/ \E f \in BOOLEAN : SetOnErr(f)
    \/ \E s \in Inst \cup {Nil} : Use(s)
    \/ \E route \in Routes(MaxRoots - Len(services)), recovered \in BOOLEAN : Mount(route, recovered)
    \/ MountEmptyPath
    \/ NotFound
    \/ ServeHTTP
    \/ RouteValidator
    \/ ResolveForRequest
    \/ NextNode
    \/ NodeValidator
    \/ Before
    \/ Handle
    \/ After
    \/ OnErr
    \/ Return

Spec == Init /\ [][Next]_vars

----------------------------------------------------------------------------
(* The context store: validatedStore, WithValidated, WithValid, Provide* *)

\* Stored types: two concrete types that print alike, and an interface type.
IfaceType == 2
StoreTypes == {1, 1 + PkgStride, IfaceType}
KeyNames == {"a", "b"}
\* the key names passed to ProvideKey and ProvideOnlyKey
ProvideNames == {"a"}

\* the values a caller may store for type T
valuesOf(T) ==
    IF T = IfaceType
    THEN {NilIface, [dyn |-> 1, v |-> 1]}
    ELSE IF T = 1 THEN {[dyn |-> T, v |-> 1], [dyn |-> T, v |-> 2]}
    ELSE {[dyn |-> T, v |-> 1]}

\* var zero T
zero(T) == IF T = IfaceType THEN NilIface ELSE [dyn |-> T, v |-> 0]

\* out, ok := v.(T)
assertsTo(x, T) == IF T = IfaceType THEN x.dyn # 0 ELSE x.dyn = T

\* &validatedStore{byType: map{}, byKey: map{}}
emptyStore == [byType |-> <<>>, byKey |-> <<>>]

\* getStore(r): the store in r's context, or a fresh empty one
getStore(h, r) == IF r.store = NoStore THEN emptyStore ELSE h[r.store]

\* cloneStore(old): a new store with both maps copied
cloneStore(old) == [byType |-> old.byType, byKey |-> old.byKey]

\* keyString(k): t.String() + "|" + k.name
keyString(T, name) == <<typeString(T), "|", name>>

found(x) == [ok |-> TRUE, value |-> x]
notFound(T) == [ok |-> FALSE, value |-> zero(T)]

\* Validated[T](r)
Validated(h, r, T) ==
    LET st == getStore(h, r)
    IN IF T \notin DOMAIN st.byType THEN notFound(T)
       ELSE IF ~assertsTo(st.byType[T], T) THEN notFound(T)
       ELSE found(st.byType[T])

\* Valid[T](r, k)
Valid(h, r, T, name) ==
    LET st == getStore(h, r)
        k == keyString(T, name)
    IN IF k \notin DOMAIN st.byKey THEN notFound(T)
       ELSE IF ~assertsTo(st.byKey[k], T) THEN notFound(T)
       ELSE found(st.byKey[k])

\* variant of withValidated: the store of the request is written in place
withValidatedInPlace(h, r, T, v) ==
    IF r.store = NoStore
    THEN [heap |-> Append(h, [emptyStore EXCEPT !.byType = (T :> v) @@ @]), store |-> Len(h) + 1]
    ELSE [heap |-> [h EXCEPT ![r.store].byType = (T :> v) @@ @], store |-> r.store]

\* variant of withValidated: an entry already present for the type is kept
withValidatedKeepsFirst(h, r, T, v) ==
    LET next == cloneStore(getStore(h, r))
    IN [heap |-> Append(h, [next EXCEPT !.byType = @ @@ (T :> v)]), store |-> Len(h) + 1]

\* WithValidated(r, value): clone, next.byType[t] = value, new request
withValidated(h, r, T, v) ==
    LET next == cloneStore(getStore(h, r))
    IN [heap |-> Append(h, [next EXCEPT !.byType = (T :> v) @@ @]), store |-> Len(h) + 1]

\* variant of withValid: the value is also put in the by-type slot
withValidAlsoByType(h, r, T, name, v) ==
    LET next == cloneStore(getStore(h, r))
    IN [heap |-> Append(h, [next EXCEPT !.byKey = (keyString(T, name) :> v) @@ @,
                                        !.byType = (T :> v) @@ @]),
        store |-> Len(h) + 1]

\* WithValid(r, k, value): clone, next.byKey[keyString(k)] = value, new request
withValid(h, r, T, name, v) ==
    LET next == cloneStore(getStore(h, r))
    IN [heap |-> Append(h, [next EXCEPT !.byKey = (keyString(T, name) :> v) @@ @]),
        store |-> Len(h) + 1]

\* ProvideKey(r, k, value): WithValidated, then WithValid on its result
provideKey(h, r, T, name, v) ==
    LET byType == withValidated(h, r, T, v)
    IN withValid(byType.heap, [r EXCEPT !.store = byType.store], T, name, v)

\* the request a write returns is a new one; the caller keeps the older ones
written(i, w, op, T, name, v) ==
    /\ Len(reqs) <= MaxWrites
    /\ heap' = w.heap
    /\ reqs' = Append(reqs, [store |-> w.store, from |-> i,
                             by |-> [op |-> op, T |-> T, name |-> name, v |-> v]])
    /\ UNCHANGED <<worldVars, sideVars, mwVars, rlVars, harnessVars, appVars, reqVars, wsVars>>

WithValidated(i, T, v) ==
    written(i, withValidated(heap, reqs[i], T, v), "WithValidated", T, "", v)

WithValid(i, T, name, v) ==
    written(i, withValid(heap, reqs[i], T, name, v), "WithValid", T, name, v)

ProvideKey(i, T, name, v) ==
    written(i, provideKey(heap, reqs[i], T, name, v), "ProvideKey", T, name, v)

\* ProvideOnlyKey(r, k, value): WithValid(r, k, value)
ProvideOnlyKey(i, T, name, v) ==
    written(i, withValid(heap, reqs[i], T, name, v), "ProvideOnlyKey", T, name, v)

InitStore ==
    /\ svType = WChain.type
    /\ svKey = WChain.key
    /\ svDeps = WChain.deps
    /\ svVals = WChain.vals
    /\ resRoots = <<>>
    /\ resOut = NotResolved
    /\ resAgain = NotResolved
    /\ AppNew
    /\ ReqIdle
    /\ StoreNew
    /\ MwIdle
    /\ SideIdle
    /\ RlIdle
    /\ WsIdle

\* a write of value v of type T on the request at position i
StoreWrites == {[i |-> i, T |-> T, v |-> v] :
                  i \in 1..Len(reqs), T \in StoreTypes, v \in UNION {valuesOf(U) : U \in StoreTypes}}

NextStore ==
    \/ \E a \in StoreWrites : a.v \in valuesOf(a.T) /\ WithValidated(a.i, a.T, a.v)
    \/ \E a \in StoreWrites, name \in KeyNames :
          a.v \in valuesOf(a.T) /\ WithValid(a.i, a.T, name, a.v)
    \/ \E a \in StoreWrites, name \in ProvideNames :
          a.v \in valuesOf(a.T) /\ ProvideKey(a.i, a.T, name, a.v)
    \/ \E a \in StoreWrites, name \in ProvideNames :
          a.v \in valuesOf(a.T) /\ ProvideOnlyKey(a.i, a.T, name, a.v)

SpecStore == InitStore /\ [][NextStore]_vars

----------------------------------------------------------------------------
(* WebSocket connections: App.serveWebSocket, App.dispatchWS and           *)
(* wsWriter.Write.  One accepted connection; the pipeline a phase is       *)
(* routed to is one invocation, which may write to the connection's        *)
(* writer, return, or panic.                                               *)

\* messages received on the connection
MaxWsMsgs == 2
\* Write calls made on the connection's writer
MaxWsWrites == 2

WsPhases == {"OPEN", "MESSAGE", "DRAIN", "CLOSE"}
WsMethods == WsPhases \cup {"GET"}
\* contents of a byte slice passed to Write, and of a received message
WsData == {"x", "y"}
WsMessages == {"m"}
\* errors websocket.Message.Receive returns
RecvErrors == {"EOF", "reset"}

\* the types the core and the routes store for a phase invocation
WsUserType == 1
AppCtxType == 3
WSConnType == 4
WSMessageType == 5
WSCloseType == 6

\* appCtx{App: a}, WSConn{Conn: conn}
appCtx == [dyn |-> AppCtxType, v |-> 1]
wsConnOf(c) == [dyn |-> WSConnType, v |-> c]
wsConn == wsConnOf(1)

\* AppFrom(r): the appCtx is in the store and its App is not nil
AppFrom(h, r) ==
    LET c == Validated(h, r, AppCtxType)
    IN  c.ok /\ c.value.v # 0

\* a byte slice: its backing array and its contents
NoBuf == [addr |-> 0, bytes |-> ""]
wsEvent(ev, phase, buf, ok) == [ev |-> ev, phase |-> phase, buf |-> buf, ok |-> ok]

RECURSIVE lastAddr(_)
\* the backing arrays allocated so far are numbered from 1
lastAddr(tr) ==
    IF tr = <<>> THEN 0
    ELSE LET a == lastAddr(SubSeq(tr, 1, Len(tr) - 1))
             b == tr[Len(tr)].buf.addr
         IN  IF b > a THEN b ELSE a

\* make([]byte, ...) holding the given contents
newBuf(tr, bytes) == [addr |-> lastAddr(tr) + 1, bytes |-> bytes]

countOf(tr, ev) == Cardinality({k \in 1..Len(tr) : tr[k].ev = ev})

\* hasAnyWSMatch: some WebSocket phase, or GET, has a route for the path
hasAnyWSMatch(routes) == routes # {}

\* dispatchWS finds a handler: the phase's own mux, else GET for OPEN and MESSAGE
routed(phase) ==
    \/ phase \in wsRoutes
    \/ phase \in {"OPEN", "MESSAGE"} /\ "GET" \in wsRoutes

\* variant of stagesOf: the After hooks run before the handler
stagesAfterFirst(n) ==
    IF n = 0 THEN <<"handle">> ELSE <<"validator", "before", "after", "handle">>

\* the calls compiledPipeline.serve makes for a route with n service nodes,
\* each node having one validator
stagesOf(n) ==
    IF n = 0 THEN <<"handle">> ELSE <<"validator", "before", "handle", "after">>

hookOf(f) == stagesOf(wsNodes)[f.stage]
callOf(f) == <<f.phase, hookOf(f)>>

\* the hooks that are handed the response writer
WritingHooks == {"before", "handle", "after"}

\* variant of serveStart: the request is passed on as it came
serveStartWithoutApp(h, store) == [heap |-> h, store |-> store]

\* compiledPipeline.serve begins: r = withApp(r, p.app)
serveStart(h, store) == withValidated(h, [store |-> store], AppCtxType, appCtx)

\* variant of phaseStore: the value is written into the base request's store
phaseStoreInPlace(h, base, T, v) ==
    withValidatedInPlace(h, [store |-> base], T, [dyn |-> T, v |-> v])

\* req := base.Clone(base.Context()); req = WithValidated(req, value)
phaseStore(h, base, T, v) == withValidated(h, [store |-> base], T, [dyn |-> T, v |-> v])

\* variant of closeInfo: the error that ended the loop is dropped
closeInfoNoErr(e) == "nil"

\* WSClose{Err: closeErr}
closeInfo(e) == e

\* m.ServeHTTP(w, r) reaches compiledPipeline.serve, which attaches the app
\* and makes its first call
begin(phase, req, st) ==
    LET s == serveStart(st.heap, req.store)
        f == [phase |-> phase, data |-> req.data, store |-> s.store, stage |-> 1,
              id |-> Len(st.trace)]
    IN  [st EXCEPT !.heap = s.heap,
                   !.stack = Append(@, f),
                   !.trace = Append(@, wsEvent(hookOf(f), phase, NoBuf, AppFrom(s.heap, f)))]

\* dispatchWS(phase, w, r): m.ServeHTTP(w, r) when routed, else nothing
dispatchWS(phase, req, st) ==
    LET called == [st EXCEPT !.trace = Append(@, wsEvent("dispatch", phase, req.data,
                                                         routed(phase)))]
    IN  IF routed(phase) THEN begin(phase, req, called) ELSE called

\* go a.dispatchWS(...): the worker does not wait for the call
returnedToUnawaited(stack) == TRUE

\* a call made by the worker has returned to serveWebSocket
returnedTo(stack) == stack = <<>>

\* WSMessage{Data: p}: the DRAIN request shares the caller's slice
drainDataShared(p, tr) == p

\* the Data of the WSMessage a DRAIN request carries: append([]byte(nil), p...)
drainData(p, tr) == newBuf(tr, p.bytes)

\* variant of afterReturn: an error returned by a pipeline ends the connection
afterReturnAborting(failed, at) == IF failed THEN "done" ELSE at

\* _ = h.pipe.serve(w, r): what the pipeline returns is discarded
afterReturn(failed, at) == at

wsNow == [trace |-> wsTrace, stack |-> wsStack, heap |-> heap, base |-> wsBase]

wsBecomes(st, at) ==
    /\ wsTrace' = st.trace
    /\ wsStack' = st.stack
    /\ heap' = st.heap
    /\ wsBase' = st.base
    /\ wsPc' = at
    /\ UNCHANGED <<wsRoutes, wsNodes, wsProg, conns, reqs, worldVars, sideVars, harnessVars, appVars,
                   reqVars, mwVars, rlVars>>

\* base := r.Clone(...); base = withApp(base, a); base = WithValidated(base, WSConn{conn})
baseContext(st, conn) ==
    LET a == withValidated(st.heap, [store |-> NoStore], AppCtxType, appCtx)
        c == withValidated(a.heap, [store |-> a.store], WSConnType, wsConnOf(conn))
    IN  [st EXCEPT !.heap = c.heap, !.base = c.store]

\* the handshake succeeded; Handler(conn) dispatches OPEN
Accept ==
    /\ wsPc = "idle"
    /\ hasAnyWSMatch(wsRoutes)
    /\ LET based == baseContext(wsNow, 1)
       IN  wsBecomes(dispatchWS("OPEN", [store |-> based.base, data |-> NoBuf], based),
                     "receive")

\* websocket.Message.Receive returns a message; MESSAGE is dispatched with it
Receive(bytes) ==
    /\ wsPc = "receive"
    /\ returnedTo(wsStack)
    /\ countOf(wsTrace, "recv") < MaxWsMsgs
    /\ LET msg == newBuf(wsTrace, bytes)
           r == phaseStore(heap, wsBase, WSMessageType, msg.addr)
           got == [wsNow EXCEPT !.trace = Append(@, wsEvent("recv", "", msg, TRUE)),
                                !.heap = r.heap]
       IN  wsBecomes(dispatchWS("MESSAGE", [store |-> r.store, data |-> msg], got),
                     "receive")

\* websocket.Message.Receive fails; the loop breaks and CLOSE is dispatched
ReceiveError(e) ==
    /\ wsPc = "receive"
    /\ returnedTo(wsStack)
    /\ LET why == [addr |-> 0, bytes |-> e]
           r == phaseStore(heap, wsBase, WSCloseType, closeInfo(e))
           got == [wsNow EXCEPT !.trace = Append(@, wsEvent("recv", "", why, FALSE)),
                                !.heap = r.heap]
       IN  wsBecomes(dispatchWS("CLOSE", [store |-> r.store, data |-> why], got),
                     "closing")

\* a request that is not an upgrade reaches the GET route's pipeline
ServePlain ==
    /\ wsPc = "idle"
    /\ "GET" \in wsRoutes
    /\ LET asked == [wsNow EXCEPT !.trace = Append(@, wsEvent("request", "GET", NoBuf, TRUE))]
       IN  wsBecomes(begin("GET", [store |-> NoStore, data |-> NoBuf], asked), "plain")

\* Handler(conn), or App.ServeHTTP for a plain request, returns
Finish ==
    /\ wsPc \in {"closing", "plain"}
    /\ returnedTo(wsStack)
    /\ wsBecomes(wsNow, "done")

\* wsWriter.Write(p), called by the running invocation
write(p, sent, st) ==
    LET by == st.stack[Len(st.stack)].phase
        tried == [st EXCEPT !.trace = Append(@, wsEvent("send", by, p, sent))]
    IN  IF ~sent
        THEN [tried EXCEPT !.trace = Append(@, wsEvent("wrote", by, NoBuf, FALSE))]
        ELSE LET data == drainData(p, tried.trace)
                 r == phaseStore(tried.heap, tried.base, WSMessageType, data.addr)
                 d == dispatchWS("DRAIN", [store |-> r.store, data |-> data],
                                 [tried EXCEPT !.heap = r.heap])
             IN  IF routed("DRAIN") THEN d
                 ELSE [d EXCEPT !.trace = Append(@, wsEvent("wrote", by, p, TRUE))]

Write(bytes, sent) ==
    /\ wsStack # <<>>
    /\ wsPc # "plain"
    /\ hookOf(wsStack[Len(wsStack)]) \in WritingHooks
    /\ callOf(wsStack[Len(wsStack)]) \in wsProg.writes
    /\ countOf(wsTrace, "send") < MaxWsWrites
    /\ wsBecomes(write(newBuf(wsTrace, bytes), sent, wsNow), wsPc)

\* the request the running call hands on when it returns nil: a validator's
\* value is stored by type, a Before hook provides a value under a key
handedOn(f, h) ==
    IF hookOf(f) = "validator"
    THEN withValidated(h, f, WsUserType, [dyn |-> WsUserType, v |-> f.id])
    ELSE IF hookOf(f) = "before"
    THEN withValid(h, f, WsUserType, "b", [dyn |-> WsUserType, v |-> f.id])
    ELSE [heap |-> h, store |-> f.store]

\* the invocation is over: dispatchWS returns, a DRAIN into the Write that
\* dispatched it
unwound(st, ok) ==
    LET top == st.stack[Len(st.stack)]
        back == SubSeq(st.stack, 1, Len(st.stack) - 1)
        done == Append(st.trace, wsEvent("return", top.phase, NoBuf, ok))
    IN  [st EXCEPT !.stack = back,
                   !.trace = IF top.phase = "DRAIN" /\ back # <<>>
                             THEN Append(done, wsEvent("wrote", back[Len(back)].phase,
                                                       NoBuf, TRUE))
                             ELSE done]

\* the running call returns nil: the pipeline makes its next call, or the
\* invocation returns
advanced(st) ==
    LET top == st.stack[Len(st.stack)]
        r == handedOn(top, st.heap)
        next == [top EXCEPT !.store = r.store, !.stage = @ + 1]
    IN  IF top.stage < Len(stagesOf(wsNodes))
        THEN [st EXCEPT !.heap = r.heap,
                        !.stack[Len(st.stack)] = next,
                        !.trace = Append(@, wsEvent(hookOf(next), top.phase, NoBuf,
                                                    AppFrom(r.heap, next)))]
        ELSE unwound(st, TRUE)

PhaseReturn ==
    /\ wsStack # <<>>
    /\ wsBecomes(advanced(wsNow), afterReturn(FALSE, wsPc))

\* the running call returns an error: route.OnErr is called and the
\* pipeline returns the error
PhaseError ==
    /\ wsStack # <<>>
    /\ callOf(wsStack[Len(wsStack)]) \in wsProg.fails
    /\ LET top == wsStack[Len(wsStack)]
           told == [wsNow EXCEPT !.trace = Append(@, wsEvent("onerr", top.phase, NoBuf,
                                                             AppFrom(heap, top)))]
       IN  wsBecomes(unwound(told, FALSE),
                     IF Len(wsStack) = 1 THEN afterReturn(TRUE, wsPc) ELSE wsPc)

\* the running invocation panics; nothing in serveWebSocket recovers, so
\* Handler(conn) is unwound
PhasePanic ==
    /\ wsStack # <<>>
    /\ wsProg.panics
    /\ LET top == wsStack[Len(wsStack)]
       IN  wsBecomes([wsNow EXCEPT !.stack = <<>>,
                                   !.trace = Append(@, wsEvent("panic", top.phase, NoBuf,
                                                               FALSE))],
                     "done")

WsWorld ==
    /\ svType = WChain.type
    /\ svKey = WChain.key
    /\ svDeps = WChain.deps
    /\ svVals = WChain.vals
    /\ resRoots = <<>>
    /\ resOut = NotResolved
    /\ resAgain = NotResolved
    /\ AppNew
    /\ ReqIdle
    /\ StoreNew
    /\ MwIdle
    /\ SideIdle
    /\ RlIdle
    /\ wsPc = "idle"
    /\ wsStack = <<>>
    /\ wsTrace = <<>>
    /\ wsBase = NoStore
    /\ conns = <<>>

\* routes that are a handler only
InitWS ==
    /\ WsWorld
    /\ wsRoutes \in {r \in SUBSET WsMethods : hasAnyWSMatch(r)}
    /\ wsNodes = 0
    /\ wsProg = [writes |-> WsMethods \X {"handle"}, fails |-> {}, panics |-> TRUE]

NextWS ==
    \/ Accept
    \/ \E bytes \in WsMessages : Receive(bytes)
    \/ \E e \in RecvErrors : ReceiveError(e)
    \/ Finish
    \/ \E bytes \in WsData, sent \in BOOLEAN : Write(bytes, sent)
    \/ PhaseReturn
    \/ PhasePanic

SpecWS == InitWS /\ [][NextWS]_vars

\* Connections served side by side.  Each is served by its own call of
\* serveWebSocket, on its own goroutine; base and writer are locals of that
\* call, the App and the heap are shared.
Conns == {1, 2}
\* frames received and writes made per connection in the runs with two connections
MaxConnMsgs == MaxWsMsgs - 1
MaxConnWrites == MaxWsWrites - 1
NoConn == [pc |-> "idle", trace |-> <<>>, stack |-> <<>>, base |-> NoStore]

\* variant of writerOf: one writer, made for the first connection, is kept
\* and used by every connection
writerShared(c) == 1

\* writer := newWSWriter(a, conn, base): the writer a connection's phases are given
writerOf(c) == c

connNow(c) == [trace |-> conns[c].trace, stack |-> conns[c].stack, heap |-> heap,
               base |-> conns[c].base]

connBecomes(c, st, at, base) ==
    /\ conns' = [conns EXCEPT ![c] = [pc |-> at, trace |-> st.trace, stack |-> st.stack,
                                      base |-> base]]
    /\ heap' = st.heap
    /\ UNCHANGED <<wsRoutes, wsNodes, wsProg, wsPc, wsStack, wsTrace, wsBase, reqs,
                   worldVars, sideVars, harnessVars, appVars, reqVars, mwVars, rlVars>>

ConnAccept(c) ==
    /\ conns[c].pc = "idle"
    /\ hasAnyWSMatch(wsRoutes)
    /\ LET based == baseContext(connNow(c), c)
       IN  connBecomes(c, dispatchWS("OPEN", [store |-> based.base, data |-> NoBuf], based),
                       "receive", based.base)

ConnReceive(c, bytes) ==
    /\ conns[c].pc = "receive"
    /\ returnedTo(conns[c].stack)
    /\ countOf(conns[c].trace, "recv") < MaxConnMsgs
    /\ LET msg == newBuf(conns[c].trace, bytes)
           r == phaseStore(heap, conns[c].base, WSMessageType, msg.addr)
           got == [connNow(c) EXCEPT !.trace = Append(@, wsEvent("recv", "", msg, TRUE)),
                                     !.heap = r.heap]
       IN  connBecomes(c, dispatchWS("MESSAGE", [store |-> r.store, data |-> msg], got),
                       "receive", conns[c].base)

ConnReceiveError(c, e) ==
    /\ conns[c].pc = "receive"
    /\ returnedTo(conns[c].stack)
    /\ LET why == [addr |-> 0, bytes |-> e]
           r == phaseStore(heap, conns[c].base, WSCloseType, closeInfo(e))
           got == [connNow(c) EXCEPT !.trace = Append(@, wsEvent("recv", "", why, FALSE)),
                                     !.heap = r.heap]
       IN  connBecomes(c, dispatchWS("CLOSE", [store |-> r.store, data |-> why], got),
                       "closing", conns[c].base)

\* the running call writes to the writer it was given; that writer's
\* baseR is the base of the connection it was made for
ConnWrite(c, bytes) ==
    /\ conns[c].stack # <<>>
    /\ callOf(conns[c].stack[Len(conns[c].stack)]) \in wsProg.writes
    /\ countOf(conns[c].trace, "send") < MaxConnWrites
    /\ LET w == writerOf(c)
           st == [connNow(c) EXCEPT !.base = conns[w].base]
       IN  connBecomes(c, write(newBuf(conns[c].trace, bytes), TRUE, st), conns[c].pc,
                       conns[c].base)

ConnReturn(c) ==
    /\ conns[c].stack # <<>>
    /\ connBecomes(c, advanced(connNow(c)), conns[c].pc, conns[c].base)

ConnFinish(c) ==
    /\ conns[c].pc = "closing"
    /\ returnedTo(conns[c].stack)
    /\ connBecomes(c, connNow(c), "done", conns[c].base)

InitConns ==
    /\ svType = WChain.type
    /\ svKey = WChain.key
    /\ svDeps = WChain.deps
    /\ svVals = WChain.vals
    /\ resRoots = <<>>
    /\ resOut = NotResolved
    /\ resAgain = NotResolved
    /\ AppNew
    /\ ReqIdle
    /\ StoreNew
    /\ MwIdle
    /\ SideIdle
    /\ RlIdle
    /\ wsPc = "idle"
    /\ wsStack = <<>>
    /\ wsTrace = <<>>
    /\ wsBase = NoStore
    /\ wsRoutes = WsPhases
    /\ wsNodes = 0
    /\ wsProg = [writes |-> {<<"MESSAGE", "handle">>}, fails |-> {}, panics |-> FALSE]
    /\ conns = [c \in Conns |-> NoConn]

NextConns ==
    \E c \in Conns :
        \/ ConnAccept(c)
        \/ \E bytes \in WsMessages : ConnReceive(c, bytes)
        \/ ConnReceiveError(c, "EOF")
        \/ \E bytes \in WsMessages : ConnWrite(c, bytes)
        \/ ConnReturn(c)
        \/ ConnFinish(c)

SpecConns == InitConns /\ [][NextConns]_vars

\* the routes mounted on the path in the runs that follow every call of a
\* pipeline: each route has one service with one validator
PhaseRouteSets == {WsPhases, {"OPEN", "MESSAGE", "CLOSE"}, {"GET"}}

\* what the code of the routes and of their services does
Programs ==
    {[writes |-> {<<"OPEN", "handle">>, <<"MESSAGE", "handle">>},
      fails |-> {}, panics |-> FALSE],
     [writes |-> {},
      fails |-> WsMethods \X {"validator", "before", "handle", "after"}, panics |-> FALSE],
     [writes |-> {<<"MESSAGE", "after">>, <<"DRAIN", "handle">>},
      fails |-> {<<"DRAIN", "before">>}, panics |-> TRUE]}

InitPhase ==
    /\ WsWorld
    /\ wsRoutes \in PhaseRouteSets
    /\ wsNodes = 1
    /\ wsProg \in Programs

NextPhase ==
    \/ NextWS
    \/ ServePlain
    \/ PhaseError

SpecPhase == InitPhase /\ [][NextPhase]_vars

----------------------------------------------------------------------------
(* Reading the log of an invocation *)

Reverse(q) == [k \in 1..Len(q) |-> q[Len(q) + 1 - k]]

IsPrefix(p, q) == Len(p) <= Len(q) /\ \A k \in 1..Len(p) : p[k] = q[k]

isHook(x) == x.ev \in {"route.OnErr", "app.OnErr"}
isCall(x) == x.ev \in {"validate", "before", "handle", "after"}

calls(ev) == SelectSeq(log, LAMBDA x : x.ev = ev)

\* the nodes whose Before (After) hook has been called, in call order
nodesOf(ev) == [k \in 1..Len(calls(ev)) |-> calls(ev)[k].node]
\* the service instances whose Before (After) hook has been called, in call order
svcsOf(ev) == [k \in 1..Len(calls(ev)) |-> calls(ev)[k].svc]

\* the error hooks were called for e: route.OnErr, then app.OnErr if one is set
hooksCalled == SelectSeq(log, isHook)

\* nothing but error hooks is called after position k of the log
stopsAt(k) == \A m \in (k + 1)..Len(log) : isHook(log[m])

\* the invocation has ended having reported e: both hooks in order, e returned
reported(e) ==
    /\ hooksCalled = reportError(e)
    /\ SubSeq(log, Len(log) - Len(hooksCalled) + 1, Len(log)) = hooksCalled
    /\ ret = returned(e)

finished == pc = "done" /\ cur.exec # ""

handlerSucceeded == \E k \in 1..Len(log) : log[k].ev = "handle" /\ log[k].res = NilErr

----------------------------------------------------------------------------
(* Claims *)

\* C1 (as stated): the After hooks called are a prefix of the reverse of the
\* Before hooks called; when the handler succeeds and no After fails (returns
\* a non-halt error), After is called for every resolved node, in reverse order.
C1_AsStated ==
    /\ IsPrefix(nodesOf("after"), Reverse(nodesOf("before")))
    /\ (finished /\ handlerSucceeded
          /\ (\A k \in 1..Len(log) : log[k].ev = "after" => log[k].res.e # "err"))
       => /\ nodesOf("after") = Reverse(nodesOf("before"))
          /\ Len(nodesOf("after")) = Len(cur.nodes)

\* C1 (amended): the After hooks called are a prefix of the reverse of the
\* Before hooks called, node for node and instance for instance, so no After is
\* called for a node whose Before was not; when the handler succeeds and every
\* After returns nil, After is called for every resolved node, exactly in the
\* reverse of the Before order.
C1_AfterReversesBefore ==
    /\ IsPrefix(nodesOf("after"), Reverse(nodesOf("before")))
    /\ IsPrefix(svcsOf("after"), Reverse(svcsOf("before")))
    /\ (finished /\ handlerSucceeded
          /\ (\A k \in 1..Len(log) : log[k].ev = "after" => log[k].res = NilErr))
       => /\ nodesOf("after") = Reverse(nodesOf("before"))
          /\ nodesOf("before") = [k \in 1..Len(cur.nodes) |-> k]
          /\ svcsOf("before") = [k \in 1..Len(cur.nodes) |-> cur.nodes[k].svc]

\* C1 witness: a finished invocation of at least two nodes in which every hook
\* and the handler returned nil
C1_Witness ==
    /\ finished /\ handlerSucceeded
    /\ Len(cur.nodes) >= 2
    /\ Len(calls("after")) = Len(cur.nodes)
    /\ \A k \in 1..Len(log) : log[k].res = NilErr

\* C2: when the Before of the k-th node returns a non-halt error, nothing but
\* the error hooks is called afterwards (no validator, Before or handler), no
\* After is called for any node, and the error is reported through the hooks.
C2_BeforeErrorStops ==
    \A k \in 1..Len(log) :
        (log[k].ev = "before" /\ log[k].res.e = "err")
        => /\ stopsAt(k)
           /\ calls("after") = <<>>
           /\ calls("handle") = <<>>
           /\ (pc = "done" => reported(log[k].res))

\* C2 witness: the Before of a node after the first failed, the earlier ones
\* having succeeded, and the invocation has ended
C2_Witness ==
    /\ finished
    /\ \E k \in 1..Len(log) :
          log[k].ev = "before" /\ log[k].res.e = "err" /\ log[k].node >= 2

\* C3: when the handler returns a non-halt error (every Before having
\* succeeded), no After is called for any node and the error hooks are called
\* with the handler's error.
C3_HandlerErrorNoAfter ==
    \A k \in 1..Len(log) :
        (log[k].ev = "handle" /\ log[k].res.e = "err")
        => /\ stopsAt(k)
           /\ calls("after") = <<>>
           /\ Len(calls("before")) = Len(cur.nodes)
           /\ (\A m \in 1..(k - 1) : log[m].res = NilErr)
           /\ (pc = "done" => reported(log[k].res))

\* C3 witness: the handler failed after the Before hooks of two nodes succeeded
C3_Witness ==
    /\ finished
    /\ Len(calls("before")) >= 2
    /\ \E k \in 1..Len(log) : log[k].ev = "handle" /\ log[k].res.e = "err"

\* C4: when the After of node i returns a non-halt error, the After hooks of
\* the nodes before i in resolver order are never called, the After hooks that
\* were called stay called (nodes n down to i, each once), and the error hooks
\* are called with that After's error.
C4_AfterErrorStops ==
    \A k \in 1..Len(log) :
        (log[k].ev = "after" /\ log[k].res.e = "err")
        => /\ stopsAt(k)
           /\ nodesOf("after") =
                 [m \in 1..(Len(cur.nodes) - log[k].node + 1) |-> Len(cur.nodes) + 1 - m]
           /\ (pc = "done" => reported(log[k].res))

\* C4 witness: the After of a node that is neither first nor last failed
C4_Witness ==
    /\ finished
    /\ \E k \in 1..Len(log) :
          /\ log[k].ev = "after" /\ log[k].res.e = "err"
          /\ log[k].node >= 2
          /\ Len(calls("after")) >= 2

\* C5: the route-level validators are called in declared order, before any
\* call on a service node; when one returns a non-halt error nothing but the
\* error hooks is called afterwards, and the hooks receive that error.
C5_RouteValidatorsFirst ==
    /\ \A k, m \in 1..Len(log) :
          (k < m /\ log[m].ev = "validate" /\ log[m].node = 0 /\ isCall(log[k]))
          => log[k].ev = "validate" /\ log[k].node = 0 /\ log[k].idx < log[m].idx
    /\ \A k \in 1..Len(log) :
          (log[k].ev = "validate" /\ log[k].node = 0 /\ log[k].res.e = "err")
          => /\ stopsAt(k)
             /\ (pc = "done" => reported(log[k].res))

\* C5 witness: the second route validator failed on a route that declares services
C5_Witness ==
    /\ finished
    /\ cur.route.services # <<>>
    /\ \E k \in 1..Len(log) :
          log[k].ev = "validate" /\ log[k].node = 0 /\ log[k].idx = 2 /\ log[k].res.e = "err"

\* C6: for a failure at any stage (a route validator, a service validator, a
\* Before, the handler, an After returning a non-halt error), route.OnErr is
\* called first and the application's OnErr second, each once, both with the
\* error the failing call returned, which the executor also returns.
C6_HooksInOrder ==
    /\ \A k \in 1..Len(log) :
          (isCall(log[k]) /\ log[k].res.e = "err")
          => /\ stopsAt(k)
             /\ (pc = "done" => reported(log[k].res))
    /\ \A k \in 1..Len(log) :
          log[k].ev = "app.OnErr"
          => k > 1 /\ log[k - 1].ev = "route.OnErr" /\ log[k - 1].res = log[k].res
    /\ Len(calls("route.OnErr")) <= 1
    /\ Len(calls("app.OnErr")) <= 1

\* C6 witness: a service validator failed and both hooks were called
C6_Witness ==
    /\ finished
    /\ Len(calls("app.OnErr")) = 1
    /\ \E k \in 1..Len(log) :
          log[k].ev = "validate" /\ log[k].node >= 1 /\ log[k].res.e = "err"

\* C7: when a route validator, a service validator, a Before hook or the
\* handler returns ErrHalt, on every path by which a mounted route is served,
\* nothing is called afterwards: no later stage and neither error hook.
C7_HaltStopsEverywhere ==
    \A k \in 1..Len(log) :
        (log[k].ev \in {"validate", "before", "handle"} /\ log[k].res = ErrHalt)
        => k = Len(log)

\* the identity a failed resolution names is that of a service on a cycle
namesCycle(id, roots) ==
    \E s \in reachable(roots) : onCycle(s) /\ serviceID(s) = id

\* the roots App.serveFor resolves for the request being served
requestRoots == services \o cur.route.services

\* what the claim says of a declared graph with the given property, wherever
\* the program resolves it: at Mount, and per request in App.serveFor
failsOnEvery(graphs(_)) ==
    /\ (mountRes.kind \in {"ok", "panic"} /\ graphs(mountRes.roots))
       => /\ mountRes.kind = "panic"
          /\ namesCycle(mountRes.id, mountRes.roots)
          /\ ~mux[Path].compiled
          /\ mux[Path].pipe.nodes = <<>>
          /\ cur.exec # "serve"
    /\ (cur.exec = "serveFor" /\ graphs(requestRoots))
       => /\ cur.nodes = <<>>
          /\ calls("before") = <<>>
          /\ pc \in {"rv", "resolve", "onErr", "done"}
          /\ (ret.kind = "panic" => namesCycle(ret.id, requestRoots))
          /\ ((pc = "done" /\ \A k \in 1..Len(log) : log[k].res = NilErr) => ret.kind = "panic")

\* C8 (as stated): for every declared service graph in which some service is
\* reachable from itself through Services(), resolution fails, names the
\* re-entered identity and yields no node list, and no Before hook is called.
C8_AsStated == failsOnEvery(cyclic)

cyclicOneInstancePerIdentity(roots) == cyclic(roots) /\ oneInstancePerIdentity(roots)

\* C8 (amended): for every declared service graph in which some service is
\* reachable from itself through Services() and no two instances reachable
\* from the roots share an identity, resolution fails, names the identity of a
\* service on a cycle and yields no node list, and no Before hook is called.
C8_CycleFails == failsOnEvery(cyclicOneInstancePerIdentity)

\* C8 witness: Mount panicked on a cyclic graph, the caller recovered, and a
\* request to the route ended in the same panic after its validators passed
C8_Witness ==
    /\ mountRes.kind = "panic"
    /\ cyclicOneInstancePerIdentity(mountRes.roots)
    /\ finished
    /\ ret.kind = "panic"
    /\ Len(log) >= 1

\* C9: a cyclic service graph is detected once, at Mount, and aborts the
\* registration: no request is dispatched to the route after the failed Mount,
\* and no request ends in the cycle panic.
C9_CycleAbortsRegistration ==
    /\ (mountRes.kind = "panic" => cur.exec = "")
    /\ ret.kind # "panic"

\* the node of the resolved list that carries the identity of instance s
nodeFor(out, s) == CHOOSE k \in 1..Len(out) : serviceID(out[k].svc) = serviceID(s)

hasNodeFor(out, s) == \E k \in 1..Len(out) : serviceID(out[k].svc) = serviceID(s)

\* C10 (as stated): in an acyclic graph, for every node of the resolved list,
\* the identity of each sub-service its service declares, directly or
\* transitively, is at an earlier position, and the node carries exactly the
\* validators its service declares.
C10_AsStated ==
    (resOut.run /\ resOut.panic = NoPanic /\ ~cyclic(resRoots))
    => \A k \in 1..Len(resOut.out) :
          /\ \A d \in subServices(resOut.out[k].svc) :
                hasNodeFor(resOut.out, d) /\ nodeFor(resOut.out, d) < k
          /\ resOut.out[k].validators = svVals[resOut.out[k].svc]

\* the instances that stand in the resolved list for the identities of S
standIns(out, S) == {out[nodeFor(out, d)].svc : d \in {x \in S : hasNodeFor(out, x)}}

\* the instances the resolved list runs for the sub-services of S, transitively:
\* each declared sub-service is represented by the node carrying its identity
RECURSIVE resolvedClosure(_, _)
resolvedClosure(out, S) ==
    LET more == S \cup standIns(out, UNION {declared(s) : s \in S})
    IN IF more = S THEN S ELSE resolvedClosure(out, more)

\* C10 (amended): in an acyclic graph, for every node of the resolved list,
\* the identity of each sub-service its service declares directly is at an
\* earlier position, and so, transitively, are the nodes that stand for those
\* identities; the node carries exactly the validators its service declares.
\* (A sub-service declared only by an instance that was skipped, its identity
\* being resolved already, need not be in the list.)
C10_DependenciesFirst ==
    (resOut.run /\ resOut.panic = NoPanic /\ ~cyclic(resRoots))
    => \A k \in 1..Len(resOut.out) :
          /\ \A d \in declared(resOut.out[k].svc) :
                hasNodeFor(resOut.out, d) /\ nodeFor(resOut.out, d) < k
          /\ \A t \in resolvedClosure(resOut.out, standIns(resOut.out, declared(resOut.out[k].svc))) :
                hasNodeFor(resOut.out, t) /\ nodeFor(resOut.out, t) < k
          /\ resOut.out[k].validators = svVals[resOut.out[k].svc]
          /\ resOut.out[k].svc \in reachable(resRoots)

\* C10 witness: an acyclic graph resolved into three nodes, the last of which
\* declares a sub-service that itself declares one
C10_Witness ==
    /\ resOut.run /\ resOut.panic = NoPanic /\ ~cyclic(resRoots)
    /\ Len(resOut.out) >= 3
    /\ \E d \in declared(resOut.out[3].svc) : declared(d) # {}
    /\ resOut.out[3].validators # <<>>

\* the identity the claims speak of: the concrete type refined by ServiceKey()
typeAndKey(s) == <<svType[s], svKey[s]>>

\* C11: the resolved list holds a node for the identity (concrete type refined
\* by ServiceKey()) of every root, one node per identity: instances of one type
\* with no key or the same key collapse to one node, and instances that differ
\* in type or key are distinct nodes.
C11_OneNodePerTypeAndKey ==
    (resOut.run /\ resOut.panic = NoPanic)
    => /\ \A j \in 1..Len(resRoots) :
             resRoots[j] # Nil
             => \E k \in 1..Len(resOut.out) :
                   typeAndKey(resOut.out[k].svc) = typeAndKey(resRoots[j])
       /\ \A k, m \in 1..Len(resOut.out) :
             typeAndKey(resOut.out[k].svc) = typeAndKey(resOut.out[m].svc) => k = m

globalRoots ==
    IF cur.exec = "serve"
    THEN SubSeq(mountRes.roots, 1, Len(mountRes.roots) - Len(cur.route.services))
    ELSE services

\* the executor holds the resolved nodes of the request
nodesResolved ==
    \/ cur.exec = "serve"
    \/ cur.exec = "serveFor" /\ pc \in {"node", "sv", "before", "handle", "after"}

nodesFrom(roots) == IF Len(roots) > 0 THEN resolveServices(roots).out ELSE <<>>

\* the log positions of the Before (After) calls on instance s
callsOn(ev, s) == {k \in 1..Len(log) : log[k].ev = ev /\ log[k].svc = s}

keyedApart(s, t) ==
    /\ s # t
    /\ svType[s] = svType[t]
    /\ svKey[s] \notin {NoKeyer, ""}
    /\ svKey[t] \notin {NoKeyer, ""}
    /\ svKey[s] # svKey[t]

\* the roots the request being served was resolved from
rootsServed == globalRoots \o cur.route.services

\* C14: when the roots of a pipeline hold two instances of one service type
\* with distinct non-empty keys, both are separate nodes, and in a successful
\* invocation Before and After are called exactly once on each.
C14_KeyedInstancesBothRun ==
    \A s, t \in Range(rootsServed) \ {Nil} :
        keyedApart(s, t)
        => /\ nodesResolved
              => /\ Cardinality({k \in 1..Len(cur.nodes) : cur.nodes[k].svc = s}) = 1
                 /\ Cardinality({k \in 1..Len(cur.nodes) : cur.nodes[k].svc = t}) = 1
           /\ Cardinality(callsOn("before", s)) <= 1
           /\ Cardinality(callsOn("after", s)) <= 1
           /\ (finished /\ handlerSucceeded /\ \A k \in 1..Len(log) : log[k].res = NilErr)
              => /\ Cardinality(callsOn("before", s)) = 1
                 /\ Cardinality(callsOn("after", s)) = 1
                 /\ Cardinality(callsOn("before", t)) = 1
                 /\ Cardinality(callsOn("after", t)) = 1

\* C14 witness: a successful invocation of a pipeline with two such instances
C14_Witness ==
    /\ finished /\ handlerSucceeded
    /\ \A k \in 1..Len(log) : log[k].res = NilErr
    /\ \E s, t \in Range(rootsServed) \ {Nil} : keyedApart(s, t)

\* the request the request at position j was derived from
parent(j) == reqs[reqs[j].from]

byTypeWrite(j) == reqs[j].by.op \in {"WithValidated", "ProvideKey"}
byKeyWrite(j) == reqs[j].by.op \in {"WithValid", "ProvideKey", "ProvideOnlyKey"}

\* every by-type and by-key lookup on request r with the stores h
lookups(h, r) ==
    [byType |-> [T \in StoreTypes |-> Validated(h, r, T)],
     byKey |-> [k \in StoreTypes \X KeyNames |-> Valid(h, r, k[1], k[2])]]

\* C15 (as stated): after a by-type write of v2 for T (on a request that may
\* hold an earlier by-type value v1 for T) Validated[T] returns v2 as found;
\* a by-type write for T changes the result of Valid for no key.
C15_AsStated ==
    \A j \in 2..Len(reqs) :
        LET w == reqs[j].by IN
        /\ byTypeWrite(j) => Validated(heap, reqs[j], w.T) = found(w.v)
        /\ w.op = "WithValidated"
           => lookups(heap, reqs[j]).byKey = lookups(heap, parent(j)).byKey

\* C15 (amended): after a by-type write of v2 for T, Validated[T] returns v2
\* and not the earlier v1: as found, except that the nil value of an interface
\* type T reads back as not-found (with the zero value, nil); a by-type write
\* for T changes the result of Valid for no key, and the by-type result for no
\* other type.
C15_LaterWriteWins ==
    \A j \in 2..Len(reqs) :
        LET w == reqs[j].by IN
        /\ byTypeWrite(j)
           => /\ Validated(heap, reqs[j], w.T).value = w.v
              /\ Validated(heap, reqs[j], w.T).ok = (w.v # NilIface)
        /\ w.op = "WithValidated"
           => /\ lookups(heap, reqs[j]).byKey = lookups(heap, parent(j)).byKey
              /\ \A U \in StoreTypes \ {w.T} :
                    Validated(heap, reqs[j], U) = Validated(heap, parent(j), U)

\* C15 witness: WithValidated(v2) on a request that holds another value v1 for
\* the type, by type and under a key
C15_Witness ==
    \E j \in 2..Len(reqs) :
        LET w == reqs[j].by IN
        /\ w.op = "WithValidated"
        /\ Validated(heap, parent(j), w.T).ok
        /\ Validated(heap, parent(j), w.T).value # w.v
        /\ \E name \in KeyNames : Valid(heap, parent(j), w.T, name).ok
        /\ Validated(heap, reqs[j], w.T) = found(w.v)

\* C16: every write returns a request with a new store and leaves the older
\* requests as they were: each by-type and by-key lookup on each of them
\* returns after the write what it returned before it.
C16_WritesLeaveOlderRequests ==
    [][/\ Len(reqs') = Len(reqs) + 1
       /\ reqs'[Len(reqs')].store > Len(heap)
       /\ \A i \in 1..Len(reqs) :
             /\ reqs'[i] = reqs[i]
             /\ getStore(heap', reqs'[i]) = getStore(heap, reqs[i])
             /\ lookups(heap', reqs'[i]) = lookups(heap, reqs[i])]_storeVars

\* C16 witness: a write on a request that has a store of its own changed a
\* lookup in the request it returned
C16_Witness ==
    \E j \in 2..Len(reqs) :
        /\ parent(j).store # NoStore
        /\ reqs[j].store # parent(j).store
        /\ lookups(heap, reqs[j]) # lookups(heap, parent(j))

\* C17: a by-key entry is addressed by (type T, name): a by-key write under
\* (T, name) changes the result of Valid under no other pair of type and name.
C17_AddressedByTypeAndName ==
    \A j \in 2..Len(reqs) :
        LET w == reqs[j].by IN
        byKeyWrite(j)
        => \A k \in (StoreTypes \X KeyNames) \ {<<w.T, w.name>>} :
              Valid(heap, reqs[j], k[1], k[2]) = Valid(heap, parent(j), k[1], k[2])

\* positions of the trace where dispatchWS was called for the phase
dispatched(tr, phase) == {k \in 1..Len(tr) : tr[k].ev = "dispatch" /\ tr[k].phase = phase}

\* Handler(conn) is no longer running for the connection
connectionOver == wsPc = "done"

\* C18: on an accepted WebSocket connection OPEN is dispatched exactly once
\* and before any MESSAGE, CLOSE is dispatched exactly once, and no OPEN or
\* MESSAGE is dispatched after CLOSE.
C18_OpenMessagesClose ==
    LET opens == dispatched(wsTrace, "OPEN")
        msgs == dispatched(wsTrace, "MESSAGE")
        closes == dispatched(wsTrace, "CLOSE")
    IN  /\ wsPc # "idle" => Cardinality(opens) = 1
        /\ \A o \in opens, m \in msgs : o < m
        /\ Cardinality(closes) <= 1
        /\ \A c \in closes, k \in opens \cup msgs : k < c
        /\ connectionOver => Cardinality(closes) = 1

\* invocations dispatched and not yet returned just before position k
inFlight(tr, k) ==
    LET before == SubSeq(tr, 1, k - 1)
    IN  Cardinality({j \in 1..Len(before) : before[j].ev = "dispatch" /\ before[j].ok})
          - countOf(before, "return")

\* C19: within one connection phase invocations never run concurrently: every
\* invocation dispatched earlier has returned when the next message is
\* received and dispatched, CLOSE is dispatched only once the receive loop
\* has exited, and a DRAIN runs nested inside the invocation that wrote.
C19_PhasesSequential ==
    /\ \A k \in 1..Len(wsTrace) : wsTrace[k].ev = "recv" => inFlight(wsTrace, k) = 0
    /\ \A k \in dispatched(wsTrace, "MESSAGE") :
          /\ k > 1 /\ wsTrace[k - 1].ev = "recv" /\ wsTrace[k - 1].ok
          /\ inFlight(wsTrace, k) = 0
    /\ \A k \in dispatched(wsTrace, "CLOSE") :
          /\ k > 1 /\ wsTrace[k - 1].ev = "recv" /\ ~wsTrace[k - 1].ok
          /\ inFlight(wsTrace, k) = 0
          /\ \A j \in k..Len(wsTrace) : wsTrace[j].ev # "recv"
    /\ \A k \in dispatched(wsTrace, "DRAIN") :
          /\ k > 1 /\ wsTrace[k - 1].ev = "send"
          /\ inFlight(wsTrace, k) >= 1
    /\ \A i \in 1..Len(wsStack) : (wsStack[i].phase = "DRAIN") <=> (i > 1)
    /\ countOf(wsTrace, "panic") = 0 => inFlight(wsTrace, Len(wsTrace) + 1) = Len(wsStack)

\* two messages were handled one after the other, the first writing and
\* running a nested DRAIN, and CLOSE was dispatched after the loop ended
C19_Witness ==
    /\ Cardinality({k \in dispatched(wsTrace, "MESSAGE") : wsTrace[k].ok}) = 2
    /\ \E d \in dispatched(wsTrace, "DRAIN") :
          /\ wsTrace[d].ok
          /\ wsTrace[d - 1].phase = "MESSAGE"
          /\ \E m \in dispatched(wsTrace, "MESSAGE") : d < m
    /\ \E c \in dispatched(wsTrace, "CLOSE") : wsTrace[c].ok
    /\ connectionOver

sends(tr, ok) == {k \in 1..Len(tr) : tr[k].ev = "send" /\ tr[k].ok = ok}

\* C20: every write that is sent successfully dispatches DRAIN exactly once,
\* with a copy of the sent payload, whichever phase wrote; a write whose send
\* fails dispatches no DRAIN and returns the error.
C20_DrainPerSend ==
    /\ \A k \in sends(wsTrace, TRUE) :
          /\ k < Len(wsTrace)
          /\ k + 1 \in dispatched(wsTrace, "DRAIN")
          /\ wsTrace[k + 1].ok = ("DRAIN" \in wsRoutes)
          /\ wsTrace[k + 1].buf.bytes = wsTrace[k].buf.bytes
          /\ \A j \in 1..k : wsTrace[j].buf.addr # wsTrace[k + 1].buf.addr
    /\ \A k \in sends(wsTrace, FALSE) :
          /\ k < Len(wsTrace)
          /\ wsTrace[k + 1].ev = "wrote" /\ ~wsTrace[k + 1].ok
    /\ \A d \in dispatched(wsTrace, "DRAIN") : d - 1 \in sends(wsTrace, TRUE)
    /\ Cardinality(dispatched(wsTrace, "DRAIN")) = Cardinality(sends(wsTrace, TRUE))

\* a MESSAGE invocation wrote successfully and its DRAIN ran and wrote in
\* turn, that send failing
C20_Witness ==
    \E k \in sends(wsTrace, TRUE), f \in sends(wsTrace, FALSE) :
        /\ wsTrace[k].phase = "MESSAGE"
        /\ wsTrace[k + 1].ok
        /\ wsTrace[f].phase = "DRAIN"
        /\ k < f

\* the Before, Handle and After calls made on the connection, in order
hookCalls(tr) ==
    LET made == SelectSeq(tr, LAMBDA e : e.ev \in {"before", "handle", "after"})
    IN  [k \in 1..Len(made) |-> <<made[k].phase, made[k].ev>>]

pipelineOf(phase) == <<<<phase, "before">>, <<phase, "handle">>, <<phase, "after">>>>

\* the calls of a pipeline whose handler writes once, the reply being sent
withDrain(phase) ==
    <<<<phase, "before">>, <<phase, "handle">>>> \o pipelineOf("DRAIN") \o <<<<phase, "after">>>>

\* the call that was running at position k of the trace, for a lifecycle phase
callerAt(tr, k) ==
    LET own == {j \in 1..(k - 1) : tr[j].phase = tr[k].phase
                                   /\ tr[j].ev \in {"validator", "before", "handle", "after"}}
    IN  IF own = {} THEN "" ELSE tr[CHOOSE j \in own : \A i \in own : i <= j].ev

\* all four phases are routed, one frame was received and then the
\* connection closed, the OPEN and MESSAGE handlers each wrote once, and
\* nothing failed
oneFrameThenClose ==
    /\ wsRoutes = WsPhases
    /\ wsNodes = 1
    /\ connectionOver
    /\ countOf(wsTrace, "panic") = 0 /\ countOf(wsTrace, "onerr") = 0
    /\ Cardinality({k \in 1..Len(wsTrace) : wsTrace[k].ev = "recv" /\ wsTrace[k].ok}) = 1
    /\ sends(wsTrace, FALSE) = {}
    /\ Cardinality(sends(wsTrace, TRUE)) = 2
    /\ \A p \in {"OPEN", "MESSAGE"} :
          \E k \in sends(wsTrace, TRUE) :
             wsTrace[k].phase = p /\ callerAt(wsTrace, k) = "handle"

\* C21: with one inbound frame and then a close, and handlers that write
\* during OPEN and MESSAGE, the calls are OPEN Before, OPEN handler, the whole
\* DRAIN pipeline, OPEN After, then the same for MESSAGE, then the CLOSE
\* pipeline; and a DRAIN pipeline is over before the After hooks of the phase
\* whose handler wrote.
C21_DrainInsideWritingPhase ==
    /\ oneFrameThenClose =>
          hookCalls(wsTrace) = withDrain("OPEN") \o withDrain("MESSAGE") \o pipelineOf("CLOSE")
    /\ \A k \in sends(wsTrace, TRUE) :
          wsTrace[k].phase # "DRAIN" /\ callerAt(wsTrace, k) = "handle" /\ wsTrace[k + 1].ok
             => \A j \in (k + 1)..Len(wsTrace) :
                   wsTrace[j].ev = "after" /\ wsTrace[j].phase = wsTrace[k].phase
                      => LET between == SubSeq(wsTrace, k + 1, j - 1)
                         IN  /\ Cardinality({i \in 1..Len(between) :
                                    between[i].ev = "dispatch" /\ between[i].ok})
                                  = countOf(between, "return")
                             /\ countOf(between, "return") >= 1

C21_Witness == oneFrameThenClose

\* positions of the trace where a pipeline returned an error
failures(tr) == {k \in 1..Len(tr) : tr[k].ev = "return" /\ ~tr[k].ok}

\* C22: an error returned inside a phase pipeline is reported through the
\* error hook and does not end the connection: after a failed OPEN or
\* MESSAGE the worker is back in the receive loop, and CLOSE is dispatched
\* when the loop ends.
C22_FailureKeepsConnection ==
    /\ \A k \in failures(wsTrace) :
          k > 1 /\ wsTrace[k - 1].ev = "onerr" /\ wsTrace[k - 1].phase = wsTrace[k].phase
    /\ \A k \in failures(wsTrace) :
          k = Len(wsTrace) /\ wsTrace[k].phase \in {"OPEN", "MESSAGE"}
             => wsPc = "receive" /\ returnedTo(wsStack)
    /\ \A k \in failures(wsTrace) :
          k = Len(wsTrace) /\ wsTrace[k].phase = "CLOSE" => wsPc \in {"closing", "done"}
    /\ connectionOver /\ countOf(wsTrace, "panic") = 0 /\ countOf(wsTrace, "request") = 0
          => Cardinality(dispatched(wsTrace, "CLOSE")) = 1
    /\ \A k \in 1..Len(wsTrace) :
          wsTrace[k].ev = "recv" /\ wsTrace[k].ok
             => k < Len(wsTrace) /\ k + 1 \in dispatched(wsTrace, "MESSAGE")

\* OPEN failed, the first MESSAGE was still dispatched and failed, the second
\* MESSAGE was still dispatched, and CLOSE was dispatched at the end
C22_Witness ==
    /\ connectionOver
    /\ \E o, m \in failures(wsTrace), d1, d2 \in dispatched(wsTrace, "MESSAGE") :
          /\ wsTrace[o].phase = "OPEN" /\ wsTrace[m].phase = "MESSAGE"
          /\ o < d1 /\ d1 < m /\ m < d2
          /\ wsTrace[d2].ok
    /\ \E c \in dispatched(wsTrace, "CLOSE") : wsTrace[c].ok

\* positions of the trace where websocket.Message.Receive returned an error
failedReceives(tr) == {k \in 1..Len(tr) : tr[k].ev = "recv" /\ ~tr[k].ok}

\* C23: the worker leaves the receive loop for CLOSE only on an error of
\* Receive, the CLOSE request carries exactly that error as WSClose.Err, and
\* no MESSAGE is dispatched for the failed receive.
C23_CloseCarriesReceiveError ==
    /\ wsPc = "closing" => failedReceives(wsTrace) # {}
    /\ Cardinality(failedReceives(wsTrace)) <= 1
    /\ \A k \in failedReceives(wsTrace) :
          /\ wsTrace[k].buf.bytes \in RecvErrors
          /\ k < Len(wsTrace) /\ k + 1 \in dispatched(wsTrace, "CLOSE")
          /\ wsTrace[k + 1].buf = wsTrace[k].buf
          /\ \A j \in dispatched(wsTrace, "MESSAGE") : j < k
    /\ \A c \in dispatched(wsTrace, "CLOSE") : c - 1 \in failedReceives(wsTrace)
    /\ \A i \in 1..Len(wsStack) :
          wsStack[i].phase = "CLOSE"
             => Validated(heap, wsStack[i], WSCloseType)
                  = found([dyn |-> WSCloseType, v |-> wsStack[i].data.bytes])

\* a CLOSE pipeline is running after Receive failed with a reset, two
\* messages having been dispatched before
C23_Witness ==
    /\ wsStack # <<>> /\ wsStack[1].phase = "CLOSE" /\ hookOf(wsStack[1]) = "handle"
    /\ \E k \in failedReceives(wsTrace) : wsTrace[k].buf.bytes = "reset"
    /\ Cardinality(dispatched(wsTrace, "MESSAGE")) = 2

\* what the request of a running phase invocation holds is what its own
\* dispatch and its own pipeline stored, on top of the base context
ownValuesOnly(f) ==
    LET user == Validated(heap, f, WsUserType)
        keyed == Valid(heap, f, WsUserType, "b")
        msg == Validated(heap, f, WSMessageType)
        close == Validated(heap, f, WSCloseType)
    IN  /\ user.ok => user.value.v = f.id
        /\ keyed.ok => keyed.value.v = f.id
        /\ msg.ok <=> f.phase \in {"MESSAGE", "DRAIN"}
        /\ msg.ok => msg.value.v = f.data.addr
        /\ close.ok <=> f.phase = "CLOSE"
        /\ AppFrom(heap, f)
        /\ Validated(heap, f, WSConnType) = found(wsConn)

\* the base context holds the app reference and the connection handle only
baseUntouched ==
    wsBase # NoStore =>
        /\ DOMAIN heap[wsBase].byType = {AppCtxType, WSConnType}
        /\ DOMAIN heap[wsBase].byKey = {}

\* C24: every phase dispatch, DRAIN included, starts from a fresh clone of the
\* connection's base context, which is never modified: what a validator, a
\* Before hook or the dispatcher stored during one phase invocation is not
\* visible in any other phase invocation of the connection.
C24_PhaseStoresApart ==
    /\ baseUntouched
    /\ wsPc # "plain" => \A i \in 1..Len(wsStack) : ownValuesOnly(wsStack[i])

\* a MESSAGE handler and the DRAIN nested in it are running, each seeing its
\* own validator's value, after the OPEN pipeline stored values of its own
C24_Witness ==
    /\ Len(wsStack) = 2
    /\ wsStack[1].phase = "MESSAGE" /\ wsStack[2].phase = "DRAIN"
    /\ hookOf(wsStack[2]) = "handle"
    /\ Validated(heap, wsStack[1], WsUserType).ok
    /\ Validated(heap, wsStack[2], WsUserType).ok
    /\ Valid(heap, wsStack[2], WsUserType, "b").ok
    /\ \E k \in 1..Len(wsTrace) : wsTrace[k].ev = "after" /\ wsTrace[k].phase = "OPEN"

\* the requests a connection's worker holds: its base and those of its running phases
requestsOf(c) ==
    {[store |-> conns[c].base]} \cup
    {[store |-> conns[c].stack[i].store] : i \in 1..Len(conns[c].stack)}

\* C25: of two connections served side by side, under every interleaving of
\* their phase dispatches, every request of a connection (its base, and the
\* request of each running phase, the DRAIN phases its writes start
\* included) carries that connection's own handle and, for MESSAGE and
\* DRAIN, its own payload; the base of each holds the app and the handle
\* only; and no store is held by both connections.
C25_ConnectionsApart ==
    \A c \in DOMAIN conns :
        /\ conns[c].base # NoStore =>
               /\ DOMAIN heap[conns[c].base].byType = {AppCtxType, WSConnType}
               /\ \A r \in requestsOf(c) :
                      Validated(heap, r, WSConnType) = found(wsConnOf(c))
        /\ \A i \in 1..Len(conns[c].stack) :
               LET f == conns[c].stack[i]
                   msg == Validated(heap, f, WSMessageType)
               IN  /\ msg.ok <=> f.phase \in {"MESSAGE", "DRAIN"}
                   /\ msg.ok => msg.value.v = f.data.addr
        /\ \A d \in DOMAIN conns \ {c} :
               \A r \in requestsOf(c), q \in requestsOf(d) :
                   r.store = q.store => r.store = NoStore

\* both connections are inside a phase at once, the second inside the DRAIN
\* phase its own write started
C25_Witness ==
    /\ DOMAIN conns = Conns
    /\ conns[1].stack # <<>>
    /\ Len(conns[2].stack) = 2
    /\ conns[2].stack[2].phase = "DRAIN"
    /\ conns[1].stack[Len(conns[1].stack)].phase = "MESSAGE"

\* a request went through its whole pipeline: the handler ran and no call failed or halted
servedThrough ==
    /\ pc = "done"
    /\ ret = returned(NilErr)
    /\ \E i \in 1..Len(log) : log[i].ev = "handle"
    /\ \A i \in 1..Len(log) : log[i].res = NilErr

\* the hook ev of the service of this identity was called during the request
hookRan(ev, id) ==
    \E i \in 1..Len(log) : log[i].ev = ev /\ log[i].svc # Nil /\ serviceID(log[i].svc) = id

walking == pc \in {"node", "sv", "before", "handle", "after"}

\* C27: the resolver is not run while a request is served, and the node list
\* a request walks is the one compiled into the handler when its route was
\* mounted.
C27_NodesFixedAtMount ==
    /\ pc # "resolve"
    /\ walking => (mux[Path].compiled /\ cur.nodes = mux[Path].pipe.nodes)

\* the calls a pipeline makes into the route and its services
HookEvents == {"validator", "before", "handle", "after", "onerr"}

\* C28: in every pipeline invocation, of an ordinary request and of every
\* WebSocket phase, AppFrom succeeds on the request given to each validator,
\* Before hook, handler, After hook and error hook, and on the request of
\* every invocation still running.
C28_AppInEveryHook ==
    /\ \A k \in 1..Len(wsTrace) :
           wsTrace[k].ev \in HookEvents => wsTrace[k].ok
    /\ \A i \in 1..Len(wsStack) : AppFrom(heap, wsStack[i])

\* an ordinary request has run its validator and ended in the error hook
C28_Witness ==
    /\ wsPc = "plain"
    /\ \E k \in 1..Len(wsTrace) : wsTrace[k].ev = "validator" /\ wsTrace[k].phase = "GET"
    /\ \E k \in 1..Len(wsTrace) : wsTrace[k].ev = "onerr" /\ wsTrace[k].phase = "GET"


----------------------------------------------------------------------------
(* Middleware: App.Use, Group.Use, Group.Handle, Chain and App.ServeHTTP of  *)
(* the http.Handler-based revision                                           *)

\* number of middleware in each of the three lists
MaxMw == 2

MwOrigins == {"global", "group", "local"}

\* the k-th middleware given to App.Use, to Group.Use, or to Group.Handle
middlewareOf(origin, k) == [of |-> origin, n |-> k]

\* the two handlers that are not middleware: app.Mux.ServeHTTP and the route's handler
MuxLayer == [of |-> "mux", n |-> 0]
HandlerLayer == [of |-> "handler", n |-> 0]

\* a handler is written as the list of its layers, the outermost first
RECURSIVE chainFrom(_, _, _)
\* for _, m := range middleware { finalHandler = m(finalHandler) }
chainFrom(final, middleware, k) ==
    IF k > Len(middleware) THEN final
    ELSE chainFrom(<<middleware[k]>> \o final, middleware, k + 1)

\* Chain(h, middleware...)
Chain(h, middleware) == chainFrom(<<h>>, middleware, 1)

mwQuiet == mwReq.pc # "run"

\* app.Use(m)
MwUse ==
    /\ mwQuiet
    /\ Len(mwApp.global) < MaxMw
    /\ mwApp' = [mwApp EXCEPT !.global = Append(@, middlewareOf("global", Len(@) + 1))]
    /\ UNCHANGED <<mwReq, rlVars, worldVars, sideVars, harnessVars, appVars, reqVars, storeVars, wsVars>>

\* g.Use(m)
MwGroupUse ==
    /\ mwQuiet
    /\ Len(mwApp.group) < MaxMw
    /\ mwApp' = [mwApp EXCEPT !.group = Append(@, middlewareOf("group", Len(@) + 1))]
    /\ UNCHANGED <<mwReq, rlVars, worldVars, sideVars, harnessVars, appVars, reqVars, storeVars, wsVars>>

\* g.Handle(path, handler, local...): the chain is built when the route is registered
MwGroupHandle(locals) ==
    /\ mwQuiet
    /\ ~mwApp.mounted
    /\ LET local == [k \in 1..locals |-> middlewareOf("local", k)]
           allMiddleware == mwApp.group \o local
       IN  mwApp' = [mwApp EXCEPT !.mounted = TRUE,
                                  !.route = Chain(HandlerLayer, allMiddleware)]
    /\ UNCHANGED <<mwReq, rlVars, worldVars, sideVars, harnessVars, appVars, reqVars, storeVars, wsVars>>

\* app.ServeHTTP(w, r): Chain(app.Mux.ServeHTTP, app.GlobalMiddleware...).ServeHTTP(w, r)
MwServeHTTP ==
    /\ mwQuiet
    /\ mwReq' = [pc |-> "run", todo |-> Chain(MuxLayer, mwApp.global), stack |-> <<>>,
                 callOrder |-> <<>>]
    /\ UNCHANGED <<mwApp, rlVars, worldVars, sideVars, harnessVars, appVars, reqVars, storeVars, wsVars>>

mwHead == mwReq.todo[1]

\* a middleware is entered; it calls next.ServeHTTP, or answers by itself
MwEnter(callsNext) ==
    /\ mwReq.pc = "run"
    /\ mwReq.todo # <<>>
    /\ mwHead.of \in MwOrigins
    /\ mwReq' = [mwReq EXCEPT !.callOrder = Append(@, <<mwHead, "start">>),
                              !.stack = Append(@, mwHead),
                              !.todo = IF callsNext THEN Tail(@) ELSE <<>>]
    /\ UNCHANGED <<mwApp, rlVars, worldVars, sideVars, harnessVars, appVars, reqVars, storeVars, wsVars>>

\* app.Mux.ServeHTTP: the registered closure runs finalHandler, or 404
MwMux ==
    /\ mwReq.pc = "run"
    /\ mwReq.todo # <<>>
    /\ mwHead = MuxLayer
    /\ mwReq' = IF mwApp.mounted
                THEN [mwReq EXCEPT !.todo = mwApp.route]
                ELSE [mwReq EXCEPT !.todo = <<>>,
                                   !.callOrder = Append(@, <<MuxLayer, "404">>)]
    /\ UNCHANGED <<mwApp, rlVars, worldVars, sideVars, harnessVars, appVars, reqVars, storeVars, wsVars>>

\* the route's handler
MwHandler ==
    /\ mwReq.pc = "run"
    /\ mwReq.todo # <<>>
    /\ mwHead = HandlerLayer
    /\ mwReq' = [mwReq EXCEPT !.todo = <<>>,
                              !.callOrder = Append(@, <<HandlerLayer, "handler">>)]
    /\ UNCHANGED <<mwApp, rlVars, worldVars, sideVars, harnessVars, appVars, reqVars, storeVars, wsVars>>

\* next.ServeHTTP returned into the innermost middleware entered, or
\* app.ServeHTTP returns
MwLeave ==
    /\ mwReq.pc = "run"
    /\ mwReq.todo = <<>>
    /\ mwReq' = IF mwReq.stack = <<>>
                THEN [mwReq EXCEPT !.pc = "done"]
                ELSE [mwReq EXCEPT !.stack = SubSeq(@, 1, Len(@) - 1),
                                   !.callOrder = Append(@, <<mwReq.stack[Len(mwReq.stack)],
                                                             "end">>)]
    /\ UNCHANGED <<mwApp, rlVars, worldVars, sideVars, harnessVars, appVars, reqVars, storeVars, wsVars>>

InitMw ==
    /\ svType = WChain.type
    /\ svKey = WChain.key
    /\ svDeps = WChain.deps
    /\ svVals = WChain.vals
    /\ resRoots = <<>>
    /\ resOut = NotResolved
    /\ resAgain = NotResolved
    /\ AppNew
    /\ ReqIdle
    /\ StoreNew
    /\ MwIdle
    /\ SideIdle
    /\ RlIdle
    /\ WsIdle

NextMw ==
    \/ MwUse
    \/ MwGroupUse
    \/ \E locals \in 0..MaxMw : MwGroupHandle(locals)
    \/ MwServeHTTP
    \/ \E callsNext \in BOOLEAN : MwEnter(callsNext)
    \/ MwMux
    \/ MwHandler
    \/ MwLeave

SpecMw == InitMw /\ [][NextMw]_vars

\* global before group before local
mwRank(origin) == IF origin = "global" THEN 1 ELSE IF origin = "group" THEN 2 ELSE 3

\* the positions of callOrder at which a middleware was entered, or left
mwMarks(what) ==
    {k \in 1..Len(mwReq.callOrder) : mwReq.callOrder[k][2] = what}

mwReachedHandler ==
    /\ mwReq.pc = "done"
    /\ \E k \in 1..Len(mwReq.callOrder) : mwReq.callOrder[k][2] = "handler"

\* C29: a request that reached the handler of a route registered through a
\* Group entered the global middleware before the group's and the group's
\* before the local ones, and left them in the reverse order.
C29_GlobalGroupLocal ==
    mwReachedHandler =>
        /\ \A i, j \in mwMarks("start") :
               i < j => mwRank(mwReq.callOrder[i][1].of) <= mwRank(mwReq.callOrder[j][1].of)
        /\ \A i, j \in mwMarks("end") :
               i < j => mwRank(mwReq.callOrder[i][1].of) >= mwRank(mwReq.callOrder[j][1].of)


----------------------------------------------------------------------------
(* RateLimitService.Before: withDefaults outside the mutex, the token bucket *)
(* inside it; calls are made from the goroutines net/http serves on          *)

\* the Burst of the service
Burst == 2
\* the clock stops here
MaxTime == 3
\* calls of Before made in one run
MaxRlCalls == 3

\* RefillEvery, in clock ticks; tokens are counted in units of 1/RefillTicks
RefillTicks == 2
FullBucket == Burst * RefillTicks

\* what Key(r) returns for the clients of the runs
RlKeys == {"a", "b", "c"}
\* the goroutines calling Before
RlCallers == {1, 2}
\* MaxEntries of the service
RlMaxEntries == {1, 2}
\* the clients of a run: one more than the service tracks
clientsOf(maxEntries) == IF maxEntries = 1 THEN {"a", "b"} ELSE RlKeys

NoRlCall == [pc |-> "idle", key |-> "", sawNil |-> FALSE, now |-> 0]

minOf(a, b) == IF a < b THEN a ELSE b

\* variant of evictOldest: the key seen last is the one removed
evictNewest(state) ==
    IF DOMAIN state = {} THEN {""}
    ELSE {k \in DOMAIN state : \A j \in DOMAIN state : state[k].lastSeen >= state[j].lastSeen}

\* evictOldest(m): the key with the least lastSeen met first in map order, or "" for an empty map
evictOldest(state) ==
    IF DOMAIN state = {} THEN {""}
    ELSE {k \in DOMAIN state : \A j \in DOMAIN state : state[k].lastSeen <= state[j].lastSeen}

without(state, k) == [j \in DOMAIN state \ {k} |-> state[j]]

\* variant of bucketFor: a new key is added without making room
bucketForKeepsAll(state, maxEntries, ip, now, victim) ==
    IF ip \in DOMAIN state THEN state
    ELSE state @@ (ip :> [tokens |-> FullBucket, last |-> now, lastSeen |-> now])

\* st := s.state[ip]; if st == nil { evict if full; st = a full bucket }
bucketFor(state, maxEntries, ip, now, victim) ==
    IF ip \in DOMAIN state THEN state
    ELSE LET room == IF Cardinality(DOMAIN state) >= maxEntries
                     THEN without(state, victim) ELSE state
         IN  room @@ (ip :> [tokens |-> FullBucket, last |-> now, lastSeen |-> now])

\* if now.After(st.last) { tokens += elapsed / RefillEvery, capped; last moves on }
refilled(st, now) ==
    IF now > st.last
    THEN LET elapsed == now - st.last
             steps == elapsed \div RefillTicks
         IN  [st EXCEPT !.tokens = minOf(@ + elapsed, FullBucket),
                        !.last = IF steps > 0 THEN @ + steps * RefillTicks ELSE now]
    ELSE st

\* the locked part of Before: the map after the call, and whether it was allowed
admitted(state, maxEntries, ip, now, victim) ==
    LET had == bucketFor(state, maxEntries, ip, now, victim)
        st == [refilled(had[ip], now) EXCEPT !.lastSeen = now]
        ok == st.tokens >= RefillTicks
    IN  [ok |-> ok,
         state |-> [had EXCEPT ![ip] = IF ok THEN [st EXCEPT !.tokens = @ - RefillTicks]
                                        ELSE st]]

rlStarted == Len(rlLog) + Cardinality({c \in RlCallers : rlCalls[c].pc # "idle"})

\* the test's clock is moved on
RlTick(d) ==
    /\ rlNow + d <= MaxTime
    /\ rlNow' = rlNow + d
    /\ UNCHANGED <<rlSvc, rlCalls, rlLog, mwVars, worldVars, sideVars, harnessVars, appVars, reqVars,
                   storeVars, wsVars>>

\* Before is called; withDefaults reads s.state without holding the mutex
RlCall(c, ip) ==
    /\ rlCalls[c].pc = "idle"
    /\ ip \in clientsOf(rlSvc.maxEntries)
    /\ rlStarted < MaxRlCalls
    /\ rlCalls' = [rlCalls EXCEPT ![c] = [pc |-> "defaults", key |-> ip,
                                          sawNil |-> ~rlSvc.made, now |-> 0]]
    /\ UNCHANGED <<rlSvc, rlNow, rlLog, mwVars, worldVars, sideVars, harnessVars, appVars, reqVars,
                   storeVars, wsVars>>

\* if s.state == nil { s.state = make(map...) }, then ip := s.Key(r); now := s.Now()
RlDefaults(c) ==
    /\ rlCalls[c].pc = "defaults"
    /\ rlSvc' = IF rlCalls[c].sawNil THEN [rlSvc EXCEPT !.made = TRUE, !.state = <<>>]
                ELSE rlSvc
    /\ rlCalls' = [rlCalls EXCEPT ![c].pc = "lock", ![c].now = rlNow]
    /\ UNCHANGED <<rlNow, rlLog, mwVars, worldVars, sideVars, harnessVars, appVars, reqVars, storeVars,
                   wsVars>>

\* s.mu.Lock() ... return r, nil or r, ErrRateLimited
RlBefore(c) ==
    /\ rlCalls[c].pc = "lock"
    /\ \E victim \in evictOldest(rlSvc.state) :
          LET a == admitted(rlSvc.state, rlSvc.maxEntries, rlCalls[c].key, rlCalls[c].now,
                            victim)
          IN  /\ rlSvc' = [rlSvc EXCEPT !.state = a.state]
              /\ rlLog' = Append(rlLog, [key |-> rlCalls[c].key, at |-> rlCalls[c].now,
                                         ok |-> a.ok])
    /\ rlCalls' = [rlCalls EXCEPT ![c] = NoRlCall]
    /\ UNCHANGED <<rlNow, mwVars, worldVars, sideVars, harnessVars, appVars, reqVars, storeVars, wsVars>>

InitRl ==
    /\ svType = WChain.type
    /\ svKey = WChain.key
    /\ svDeps = WChain.deps
    /\ svVals = WChain.vals
    /\ resRoots = <<>>
    /\ resOut = NotResolved
    /\ resAgain = NotResolved
    /\ AppNew
    /\ ReqIdle
    /\ StoreNew
    /\ MwIdle
    /\ SideIdle
    /\ WsIdle
    /\ \E n \in RlMaxEntries : rlSvc = [made |-> FALSE, state |-> <<>>, maxEntries |-> n]
    /\ rlNow = 0
    /\ rlCalls = [c \in RlCallers |-> NoRlCall]
    /\ rlLog = <<>>

NextRl ==
    \/ \E d \in {1, RefillTicks} : RlTick(d)
    \/ \E c \in RlCallers, ip \in RlKeys : RlCall(c, ip)
    \/ \E c \in RlCallers : RlDefaults(c)
    \/ \E c \in RlCallers : RlBefore(c)

SpecRl == InitRl /\ [][NextRl]_vars

\* the calls that have returned were all made under one key
oneClient == \A i, j \in 1..Len(rlLog) : rlLog[i].key = rlLog[j].key

\* C30: with one client key and no clock advance exactly the first Burst
\* calls are allowed and every further one is limited; a call made
\* RefillEvery or more after all earlier calls of its key is allowed; the
\* first call under a key is allowed whatever happened under other keys.
C30_BurstThenLimited ==
    /\ (oneClient /\ \A i \in 1..Len(rlLog) : rlLog[i].at = rlLog[1].at) =>
           \A i \in 1..Len(rlLog) : rlLog[i].ok <=> i <= Burst
    /\ \A j \in 1..Len(rlLog) :
           (\A i \in 1..(j - 1) :
                rlLog[i].key = rlLog[j].key => rlLog[j].at >= rlLog[i].at + RefillTicks)
               => rlLog[j].ok

tracked == DOMAIN rlSvc.state

\* a call of Before has returned in this step
rlReturned == Len(rlLog') = Len(rlLog) + 1

\* C31: the service never tracks more than MaxEntries keys; a call of Before
\* removes a key only to make room for a new key at capacity, removes one
\* key only, and that key has the oldest lastSeen of the tracked keys; a key
\* that is not tracked when its call arrives (never seen, or evicted) is
\* allowed and is left with a full burst less the token it spent.
C31_EvictsOldestAtCapacity ==
    /\ [](Cardinality(tracked) <= rlSvc.maxEntries \/ ~rlSvc.made)
    /\ [][rlReturned =>
            LET ip == rlLog'[Len(rlLog')].key
                gone == tracked \ DOMAIN rlSvc'.state
            IN  /\ Cardinality(gone) <= 1
                /\ gone # {} => /\ ip \notin tracked
                                /\ Cardinality(tracked) >= rlSvc.maxEntries
                /\ \A k \in gone : \A j \in tracked :
                       rlSvc.state[k].lastSeen <= rlSvc.state[j].lastSeen
                /\ ip \notin tracked =>
                       /\ rlLog'[Len(rlLog')].ok
                       /\ rlSvc'.state[ip].tokens = FullBucket - RefillTicks]_vars

\* a service tracking one key has evicted it for a second key, and the
\* evicted key has come back with no clock advance and has a full burst
\* less one token, where it would have had one token less had it stayed
C31_Witness ==
    /\ rlSvc.maxEntries = 1
    /\ Len(rlLog) = 3
    /\ rlLog[1].key = "a" /\ rlLog[2].key = "b" /\ rlLog[3].key = "a"
    /\ rlLog[1].at = rlLog[3].at
    /\ rlLog[3].ok
    /\ tracked = {"a"}
    /\ rlSvc.state["a"].tokens = FullBucket - RefillTicks

\* ---------------------------------------------------------------------------
\* Request dispatch: App.ServeHTTP over the routes, the static mounts and
\* OnNotFound.  Paths, patterns and prefixes are strings, kept as sequences of
\* characters.  The requests are plain ones (isWebSocketUpgrade is false).
\* ---------------------------------------------------------------------------

MaxDsRoutes == 1
MaxStatic == 2

DsMethods == {"GET", "POST"}
\* the path arguments of Mount
DsMountPaths == {<<>>, <<"/">>, <<"/", "s", "/", "v">>, <<"x">>}
\* the prefix arguments of ServeEmbeddedFiles
DsPrefixes == {<<>>, <<"/">>, <<"s">>, <<"/", "s", "/">>, <<"/", "s", "/", "v">>}
\* r.URL.Path of the requests
DsPaths == {<<"/">>, <<"/", "s">>, <<"/", "s", "v">>, <<"/", "s", "/", "v">>,
            <<"/", "s", "/", "v", "/", "h">>, <<"/", "x">>}

\* every other part of the program is as constructed and stays so
RestIdle ==
    /\ svType = WChain.type
    /\ svKey = WChain.key
    /\ svDeps = WChain.deps
    /\ svVals = WChain.vals
    /\ resRoots = <<>>
    /\ resOut = NotResolved
    /\ resAgain = NotResolved
    /\ AppNew
    /\ ReqIdle
    /\ StoreNew
    /\ MwIdle
    /\ RlIdle
    /\ WsIdle

\* strings.HasPrefix(s, prefix)
hasPrefix(s, prefix) == Len(prefix) <= Len(s) /\ SubSeq(s, 1, Len(prefix)) = prefix

\* strings.HasSuffix(s, suffix)
hasSuffix(s, suffix) ==
    Len(suffix) <= Len(s) /\ SubSeq(s, Len(s) - Len(suffix) + 1, Len(s)) = suffix

\* if !strings.HasPrefix(path, "/") { path = "/" + path }
slashed(path) == IF hasPrefix(path, <<"/">>) THEN path ELSE <<"/">> \o path

\* the prefix ServeEmbeddedFiles stores: a leading "/", and one trailing "/"
\* trimmed when the prefix is longer than one character
storedPrefix(prefix) ==
    LET p == slashed(prefix)
    IN IF Len(p) > 1 /\ hasSuffix(p, <<"/">>) THEN SubSeq(p, 1, Len(p) - 1) ELSE p

\* a ServeMux pattern matches its own path; one ending in "/" matches its subtree
patternMatches(pat, path) ==
    \/ pat = path
    \/ hasSuffix(pat, <<"/">>) /\ hasPrefix(path, pat)

\* h, pat := m.Handler(r): the longest matching pattern, "" when none matches
muxPattern(method, path) ==
    LET hits == {pat \in {rt[2] : rt \in {x \in dsApp.routes : x[1] = method}} :
                     patternMatches(pat, path)}
    IN IF hits = {} THEN <<>>
       ELSE CHOOSE pat \in hits : \A q \in hits : Len(q) <= Len(pat)

\* a prefix covers a path equal to it or below it; the prefix "/" is above every path
staticMatchesBySegments(p, path) ==
    path = p \/ p = <<"/">> \/ hasPrefix(path, p \o <<"/">>)

\* tryStatic: path == p || strings.HasPrefix(path, p+"/")
staticMatches(p, path) == path = p \/ hasPrefix(path, p \o <<"/">>)

\* tryStatic: the index of the mount that serves, 0 when none does; a later
\* mount replaces the best one only when its prefix is strictly longer
RECURSIVE bestStatic(_, _, _, _)
bestStatic(static, path, i, bestIdx) ==
    IF i > Len(static) THEN bestIdx
    ELSE IF /\ static[i] # <<>>
            /\ staticMatches(static[i], path)
            /\ (bestIdx = 0 \/ Len(static[i]) > Len(static[bestIdx]))
         THEN bestStatic(static, path, i + 1, i)
         ELSE bestStatic(static, path, i + 1, bestIdx)

tryStatic(path) == bestStatic(dsApp.static, path, 1, 0)

dsVarsOnly == <<worldVars, toReq, plVars, mwVars, rlVars, harnessVars, appVars, reqVars,
                storeVars, wsVars>>

\* App.Mount(method, path, route): m.Handle(path, mh)
DsMount(method, path) ==
    /\ Cardinality(dsApp.routes) < MaxDsRoutes
    /\ <<method, slashed(path)>> \notin dsApp.routes
    /\ IF path = <<>>
       THEN /\ dsOut' = [NoDispatch EXCEPT !.op = "Mount", !.err = TRUE]
            /\ UNCHANGED dsApp
       ELSE /\ dsApp' = [dsApp EXCEPT !.routes = @ \cup {<<method, slashed(path)>>}]
            /\ dsOut' = [NoDispatch EXCEPT !.op = "Mount"]
    /\ UNCHANGED dsVarsOnly

\* App.ServeEmbeddedFiles(prefix, f)
ServeEmbeddedFiles(prefix, nilFs) ==
    /\ Len(dsApp.static) < MaxStatic
    /\ IF prefix = <<>> \/ nilFs
       THEN /\ dsOut' = [NoDispatch EXCEPT !.op = "ServeEmbeddedFiles", !.err = TRUE]
            /\ UNCHANGED dsApp
       ELSE /\ dsApp' = [dsApp EXCEPT !.static = Append(@, storedPrefix(prefix))]
            /\ dsOut' = [NoDispatch EXCEPT !.op = "ServeEmbeddedFiles"]
    /\ UNCHANGED dsVarsOnly

\* app.OnNotFound = func(...)
SetOnNotFound ==
    /\ ~dsApp.onNotFound
    /\ dsApp' = [dsApp EXCEPT !.onNotFound = TRUE]
    /\ dsOut' = [NoDispatch EXCEPT !.op = "OnNotFound="]
    /\ UNCHANGED dsVarsOnly

\* App.ServeHTTP(w, r) for a plain request
DsServeHTTP(method, path) ==
    /\ dsOut' = [op |-> "ServeHTTP", method |-> method, path |-> path, err |-> FALSE,
                 by |-> IF muxPattern(method, path) # <<>> THEN "route"
                        ELSE IF tryStatic(path) # 0 THEN "static"
                        ELSE IF dsApp.onNotFound THEN "OnNotFound"
                        ELSE "http.NotFound",
                 idx |-> IF muxPattern(method, path) # <<>> THEN 0 ELSE tryStatic(path)]
    /\ UNCHANGED <<dsApp, dsVarsOnly>>

InitDispatch ==
    /\ RestIdle
    /\ DsIdle
    /\ ToIdle
    /\ PlIdle

NextDispatch ==
    \/ \E method \in DsMethods, path \in DsMountPaths : DsMount(method, path)
    \/ \E prefix \in DsPrefixes, nilFs \in BOOLEAN : ServeEmbeddedFiles(prefix, nilFs)
    \/ SetOnNotFound
    \/ \E method \in DsMethods, path \in DsPaths : DsServeHTTP(method, path)

SpecDispatch == InitDispatch /\ [][NextDispatch]_vars

\* the mounts whose prefix is the path or a leading run of its segments
covering(path) ==
    {i \in 1..Len(dsApp.static) : staticMatchesBySegments(dsApp.static[i], path)}

dispatchedAsClaimed ==
    LET hasRoute == muxPattern(dsOut.method, dsOut.path) # <<>>
        over == covering(dsOut.path)
    IN  /\ hasRoute => dsOut.by = "route"
        /\ ~hasRoute /\ over # {} =>
               /\ dsOut.by = "static"
               /\ dsOut.idx \in over
               /\ \A i \in over : Len(dsApp.static[i]) <= Len(dsApp.static[dsOut.idx])
        /\ ~hasRoute /\ over = {} =>
               dsOut.by = (IF dsApp.onNotFound THEN "OnNotFound" ELSE "http.NotFound")

\* C32: a request is served by the route mounted for its method and path when
\* there is one, else by the static mount with the longest prefix covering the
\* path, else by the not-found handler and by nothing else.
C32_DispatchPriority == dsOut.op = "ServeHTTP" => dispatchedAsClaimed

\* a request is inside the handler registered for the path
routeEntered == pc # "idle"

\* C38: when Mount returned the error of the route's OnMount, the registration
\* has no effect: no later request is dispatched to that route.
C38_FailedMountHasNoEffect == mountRes.kind = "error" => ~routeEntered

\* the positions in the log of the calls of one kind
callsOf(evs) == {k \in 1..Len(log) : log[k].ev \in evs}

\* a stage of the invocation returned an error other than the halt sentinel
endedWithError ==
    \E k \in callsOf({"validate", "before", "handle", "after"}) :
        log[k].res # NilErr /\ log[k].res # ErrHalt

\* every validator of the route and of the nodes, and every Before, returned
\* nil before position k of the log
allPassedBefore(k) ==
    /\ \A i \in 1..(k - 1) : log[i].ev \in {"validate", "before"} /\ log[i].res = NilErr
    /\ \A j \in 1..Len(cur.rv) :
           cur.rv[j] # NilVal =>
               \E i \in 1..(k - 1) : log[i].ev = "validate" /\ log[i].node = 0 /\ log[i].idx = j
    /\ \A n \in 1..Len(cur.nodes) :
           /\ \E i \in 1..(k - 1) : log[i].ev = "before" /\ log[i].node = n
           /\ \A j \in 1..Len(cur.nodes[n].validators) :
                  cur.nodes[n].validators[j] # NilVal =>
                      \E i \in 1..(k - 1) :
                          log[i].ev = "validate" /\ log[i].node = n /\ log[i].idx = j

handledOnceAfterAll ==
    /\ Cardinality(callsOf({"handle"})) <= 1
    /\ \A k \in callsOf({"handle"}) : allPassedBefore(k)

hooksOnErrorOnly ==
    /\ Cardinality(callsOf({"route.OnErr"})) = (IF endedWithError THEN 1 ELSE 0)
    /\ Cardinality(callsOf({"app.OnErr"})) = (IF endedWithError /\ appOnErr THEN 1 ELSE 0)

\* C34: in every invocation the handler runs at most once and only after all
\* validators and Before hooks returned nil; each error hook runs at most
\* once, and runs exactly when the invocation ended with a non-halt error.
C34_HandlerOnceHooksOnError ==
    (pc = "done" /\ ret.kind = "ret") => handledOnceAfterAll /\ hooksOnErrorOnly

\* C35: when an After hook returns the halt sentinel, no After hook of an
\* earlier node runs, no error hook is invoked, and the invocation returns nil.
C35_AfterHaltEndsQuietly ==
    \A k \in callsOf({"after"}) :
        log[k].res = ErrHalt =>
            /\ k = Len(log)
            /\ pc = "done" => ret = returned(NilErr)

\* the DRAIN dispatches that have not returned yet
drainDepth == Cardinality({i \in 1..Len(wsStack) : wsStack[i].phase = "DRAIN"})

\* C39: a phase dispatch ends when its handlers and hooks end: a DRAIN handler
\* that writes to the response sink does not start a DRAIN dispatch inside its
\* own, so DRAIN dispatches never pile up one inside the other.
C39_NoNestedDrain == drainDepth <= 1

\* ---------------------------------------------------------------------------
\* MwTimeout: the goroutine of the request (main) and the goroutine it starts
\* for the wrapped handler (worker), the context with its deadline, and the
\* unbuffered channel done.
\* ---------------------------------------------------------------------------

MaxSecs == 2
MaxToWrites == 2

StatusOK == 200
StatusGatewayTimeout == 504

toVarsOnly == <<worldVars, dsVars, plVars, mwVars, rlVars, harnessVars, appVars, reqVars,
                storeVars, wsVars>>

\* variant of ctxCase: the worker's select has no case for ctx.Done()
ctxCaseMissing(ctxDone) == FALSE

\* case <-ctx.Done(): ready once the context is cancelled
ctxCase(ctxDone) == ctxDone

\* the first WriteHeader decides the status of the response
wroteHeader(status, code) == IF status = 0 THEN code ELSE status

\* the middleware is entered: ctx, cancel := context.WithTimeout(r.Context(), seconds);
\* go func() { next.ServeHTTP(w, r); ... }(); a deadline of no seconds has passed at once
ToServeHTTP(seconds) ==
    /\ toReq.main = "idle"
    /\ toReq' = [toReq EXCEPT !.main = "select", !.worker = "serving",
                              !.secs = seconds, !.ctxDone = (seconds = 0)]
    /\ UNCHANGED toVarsOnly

\* a second passes; the timer of the context fires at the deadline
ToTick ==
    /\ toReq.main # "idle"
    /\ ~toReq.ctxDone
    /\ toReq.clock < toReq.secs
    /\ toReq' = [toReq EXCEPT !.clock = @ + 1, !.ctxDone = (toReq.clock + 1 >= toReq.secs)]
    /\ UNCHANGED toVarsOnly

\* r.Context() is cancelled (the client went away): so is the derived context
ToParentCancel ==
    /\ toReq.main # "idle"
    /\ ~toReq.ctxDone
    /\ toReq' = [toReq EXCEPT !.ctxDone = TRUE]
    /\ UNCHANGED toVarsOnly

\* next.ServeHTTP(w, r) writes to the response
ToHandlerWrite ==
    /\ toReq.worker = "serving"
    /\ toReq.served < MaxToWrites
    /\ toReq' = [toReq EXCEPT !.served = @ + 1, !.status = wroteHeader(@, StatusOK)]
    /\ UNCHANGED toVarsOnly

\* next.ServeHTTP(w, r) returns: the worker reaches its select
ToHandlerReturn ==
    /\ toReq.worker = "serving"
    /\ toReq' = [toReq EXCEPT !.worker = "select"]
    /\ UNCHANGED toVarsOnly

\* case done <- true in the worker meets case <-done in main: done is
\* unbuffered, so both proceed together; main returns and its deferred cancel runs
ToDone ==
    /\ toReq.worker = "select"
    /\ toReq.main = "select"
    /\ toReq' = [toReq EXCEPT !.worker = "exited", !.main = "returned", !.ctxDone = TRUE]
    /\ UNCHANGED toVarsOnly

\* case <-ctx.Done() in the worker: return
ToWorkerCtxDone ==
    /\ toReq.worker = "select"
    /\ ctxCase(toReq.ctxDone)
    /\ toReq' = [toReq EXCEPT !.worker = "exited"]
    /\ UNCHANGED toVarsOnly

\* case <-ctx.Done() in main: http.Error(w, ..., 504); return; deferred cancel
ToMainCtxDone ==
    /\ toReq.main = "select"
    /\ toReq.ctxDone
    /\ toReq' = [toReq EXCEPT !.main = "returned",
                              !.status = wroteHeader(@, StatusGatewayTimeout)]
    /\ UNCHANGED toVarsOnly

InitTimeout ==
    /\ RestIdle
    /\ DsIdle
    /\ ToIdle
    /\ PlIdle

NextTimeout ==
    \/ \E seconds \in 0..MaxSecs : ToServeHTTP(seconds)
    \/ ToTick
    \/ ToParentCancel
    \/ ToHandlerWrite
    \/ ToHandlerReturn
    \/ ToDone
    \/ ToWorkerCtxDone
    \/ ToMainCtxDone

SpecTimeout == InitTimeout /\ [][NextTimeout]_vars

\* A goroutine blocked in a select goes on once one of its cases stays ready,
\* and the timer of the context runs; the wrapped handler need not return.
SpecTimeoutFair ==
    /\ SpecTimeout
    /\ WF_vars(ToDone \/ ToWorkerCtxDone)
    /\ WF_vars(ToDone \/ ToMainCtxDone)
    /\ WF_vars(ToTick)

\* C40: once the wrapped handler has returned the worker goroutine ends, under
\* every interleaving with the deadline; and the middleware returns once the
\* handler has completed or the deadline has fired, and not before.
C40_TimeoutWorkerEnds ==
    /\ (toReq.worker = "select") ~> (toReq.worker = "exited")
    /\ (toReq.main = "select" /\ (toReq.worker = "select" \/ toReq.ctxDone))
           ~> (toReq.main = "returned")
    /\ [][(toReq.main = "select" /\ toReq'.main = "returned")
             => (toReq.worker = "select" \/ toReq.ctxDone)]_vars

C40_Witness ==
    /\ toReq.main = "returned"
    /\ toReq.worker = "exited"
    /\ toReq.status = StatusGatewayTimeout
    /\ toReq.served = 0
    /\ toReq.clock = toReq.secs
    /\ toReq.secs > 0

\* ---------------------------------------------------------------------------
\* compiledPipeline.serve with the request it threads through its stages: each
\* validator adapter and each Before returns the request the next stage gets.
\* ---------------------------------------------------------------------------

MaxPlNodes == 2

AdapterKinds == {"SV", "V", "KV", "KSV", "KSVOnly"}
\* the value types of the validators: two types that print differently
PlTypes == {7, 8}
\* a validator built by an adapter: its kind, its value type, its key name
PlValidators == {[kind |-> k, T |-> T, name |-> "a"] : k \in AdapterKinds, T \in PlTypes}
\* Validators() of the route and of a service: none or one
PlValidatorLists == {<<>>} \cup {<<v>> : v \in PlValidators}
PlNodes == {[validators |-> vs] : vs \in PlValidatorLists}
PlNodeLists == UNION {[1..k -> PlNodes] : k \in 0..MaxPlNodes}
\* a failing Before returns the request it was given, or another one
PlBacks == {"given", "other"}
PlReturns == {"nil", "halt", "err"}

\* the value Validate returns for validator j of node n (node 0 is the route)
valueOf(v, n, j) == [dyn |-> v.T, v |-> n + n + j]
\* the value the Before of node n provides, and its key
beforeType == 7
beforeName(n) == <<"b1", "b2", "b3", "b4">>[n]
beforeValue(n) == [dyn |-> beforeType, v |-> n]

plCall(ev, n, j) == [ev |-> ev, node |-> n, idx |-> j]

\* variant of stored: the value is stored whatever Validate returned
storedDespiteError(v, h, store, value, e) ==
    IF v.kind \in {"SV"} THEN withValidated(h, [store |-> store], v.T, value)
    ELSE IF v.kind \in {"V", "KSV"} THEN provideKey(h, [store |-> store], v.T, v.name, value)
    ELSE withValid(h, [store |-> store], v.T, v.name, value)

\* the request an adapter returns: r itself when Validate failed; else
\* SV: WithValidated; V and KSV: by type, then by key; KV and KSVOnly: by key only
stored(v, h, store, value, e) ==
    IF e # "nil" THEN [heap |-> h, store |-> store]
    ELSE IF v.kind \in {"SV"} THEN withValidated(h, [store |-> store], v.T, value)
    ELSE IF v.kind \in {"V", "KSV"} THEN provideKey(h, [store |-> store], v.T, v.name, value)
    ELSE withValid(h, [store |-> store], v.T, v.name, value)

\* what Before of node n returns: a request with its value provided, or on
\* failure the request given or one that carries no store
beforeReturns(n, h, store, e, back) ==
    IF e = "nil" THEN withValid(h, [store |-> store], beforeType, beforeName(n), beforeValue(n))
    ELSE IF back = "given" THEN [heap |-> h, store |-> store]
    ELSE [heap |-> h, store |-> NoStore]

\* the validators of node n (node 0: the route validators)
validatorsAt(n) == IF n = 0 THEN plRoute.validators ELSE plRoute.nodes[n].validators

\* variant of callsOfNode: the Before of the node runs ahead of its validators
callsOfNodeBeforeFirst(n) ==
    <<plCall("before", n, 0)>> \o [j \in 1..Len(validatorsAt(n)) |-> plCall("validate", n, j)]

\* for _, v := range n.validators { ... }; r, err = n.svc.Before(r, w)
callsOfNode(n) ==
    [j \in 1..Len(validatorsAt(n)) |-> plCall("validate", n, j)] \o <<plCall("before", n, 0)>>

RECURSIVE callsOfNodes(_)
callsOfNodes(n) ==
    IF n > Len(plRoute.nodes) THEN <<>> ELSE callsOfNode(n) \o callsOfNodes(n + 1)

\* the calls serve makes when every one returns nil, in order
planOf ==
    [j \in 1..Len(plRoute.validators) |-> plCall("validate", 0, j)]
    \o callsOfNodes(1)
    \o <<plCall("handle", 0, 0)>>
    \o [i \in 1..Len(plRoute.nodes) |-> plCall("after", Len(plRoute.nodes) - i + 1, 0)]

plNext == planOf[plAt.i]

\* variant of hookRequest: the error hooks get the request serve started with
hookRequestFromStart(start, r) == start

\* p.route.OnErr(r, w, err): r is the request the failed call returned
hookRequest(start, r) == r

plVarsOnly == <<worldVars, dsVars, toReq, mwVars, rlVars, harnessVars, appVars, reqVars,
                reqs, wsVars>>

\* serve(w, r): r = withApp(r, p.app)
PlServe ==
    /\ plAt.pc = "idle"
    /\ LET w == serveStart(heap, NoStore)
       IN  /\ heap' = w.heap
           /\ plReq' = w.store
           /\ plAt' = [plAt EXCEPT !.pc = "run", !.i = 1, !.start = w.store]
    /\ UNCHANGED <<plRoute, plLog, plVarsOnly>>

\* a call returned e and the request out.store: on to the next call, to the
\* error hooks, or out of serve (nil after the last call, and on ErrHalt)
plReturned(out, e) ==
    /\ heap' = out.heap
    /\ plReq' = out.store
    /\ plLog' = Append(plLog, [ev |-> plNext.ev, node |-> plNext.node, idx |-> plNext.idx,
                               given |-> plReq, back |-> out.store, res |-> e])
    /\ plAt' = [plAt EXCEPT !.i = @ + 1, !.err = e,
                            !.pc = IF e = "err" THEN "onErr"
                                   ELSE IF e = "halt" \/ plAt.i = Len(planOf) THEN "done"
                                   ELSE "run"]
    /\ UNCHANGED <<plRoute, plVarsOnly>>

\* r, err = v.ValidateAny(r)
PlValidate(e) ==
    /\ plAt.pc = "run"
    /\ plNext.ev = "validate"
    /\ LET v == validatorsAt(plNext.node)[plNext.idx]
       IN plReturned(stored(v, heap, plReq, valueOf(v, plNext.node, plNext.idx), e), e)

\* r, err = n.svc.Before(r, w)
PlBefore(e, back) ==
    /\ plAt.pc = "run"
    /\ plNext.ev = "before"
    /\ e = "nil" => back = "given"
    /\ plReturned(beforeReturns(plNext.node, heap, plReq, e, back), e)

\* p.route.Handle(r, w)
PlHandle(e) ==
    /\ plAt.pc = "run"
    /\ plNext.ev = "handle"
    /\ plReturned([heap |-> heap, store |-> plReq], e)

\* p.nodes[i].svc.After(r, w)
PlAfter(e) ==
    /\ plAt.pc = "run"
    /\ plNext.ev = "after"
    /\ plReturned([heap |-> heap, store |-> plReq], e)

\* p.route.OnErr(r, w, err); p.app.OnErr(p.app, p.route, r, w, err); return err
PlOnErr ==
    /\ plAt.pc = "onErr"
    /\ LET r == hookRequest(plAt.start, plReq)
       IN plLog' = plLog \o <<[ev |-> "route.OnErr", node |-> 0, idx |-> 0, given |-> r,
                               back |-> r, res |-> plAt.err],
                              [ev |-> "app.OnErr", node |-> 0, idx |-> 0, given |-> r,
                               back |-> r, res |-> plAt.err]>>
    /\ plAt' = [plAt EXCEPT !.pc = "done"]
    /\ UNCHANGED <<plRoute, plReq, heap, plVarsOnly>>

InitPipe ==
    /\ RestIdle
    /\ DsIdle
    /\ ToIdle
    /\ plRoute \in [validators : PlValidatorLists, nodes : PlNodeLists]
    /\ plAt = NoPlAt
    /\ plReq = NoStore
    /\ plLog = <<>>

NextPipe ==
    \/ PlServe
    \/ \E e \in PlReturns : PlValidate(e)
    \/ \E e \in PlReturns, back \in PlBacks : PlBefore(e, back)
    \/ \E e \in PlReturns : PlHandle(e)
    \/ \E e \in PlReturns : PlAfter(e)
    \/ PlOnErr

SpecPipe == InitPipe /\ [][NextPipe]_vars

TypeSlotKinds == {"SV", "V", "KSV"}
KeySlotKinds == {"V", "KV", "KSV", "KSVOnly"}

\* call k of the log is validator j of node n and returned nil
passedAt(k, n, j) ==
    /\ plLog[k].ev = "validate" /\ plLog[k].node = n /\ plLog[k].idx = j
    /\ plLog[k].res = "nil"

\* the validator whose call is entry k of the log
validatorAt(k) == validatorsAt(plLog[k].node)[plLog[k].idx]

\* a validator that passed between entries k and m wrote the slot again
rewrittenByType(k, m) ==
    \E i \in (k + 1)..(m - 1) :
        /\ plLog[i].ev = "validate" /\ plLog[i].res = "nil"
        /\ validatorAt(i).kind \in TypeSlotKinds /\ validatorAt(i).T = validatorAt(k).T

rewrittenByKey(k, m) ==
    \E i \in (k + 1)..(m - 1) :
        /\ plLog[i].ev = "validate" /\ plLog[i].res = "nil"
        /\ validatorAt(i).kind \in KeySlotKinds /\ validatorAt(i).T = validatorAt(k).T
        /\ validatorAt(i).name = validatorAt(k).name

\* the request handed to call m holds what the validator of entry k stored
seesValueOf(k, m) ==
    LET v == validatorAt(k)
        value == valueOf(v, plLog[k].node, plLog[k].idx)
        r == [store |-> plLog[m].given]
    IN  /\ (v.kind \in TypeSlotKinds /\ ~rewrittenByType(k, m))
               => Validated(heap, r, v.T) = found(value)
        /\ (v.kind \in KeySlotKinds /\ ~rewrittenByKey(k, m))
               => Valid(heap, r, v.T, v.name) = found(value)

\* each Before comes right after the validators of its node, all passed, and
\* each validator of a node after the Before of every earlier node
interleavedPerNode ==
    /\ \A b \in 1..Len(plLog) :
           plLog[b].ev = "before" =>
               LET n == plLog[b].node
                   m == Len(validatorsAt(n))
               IN  /\ b > m
                   /\ \A j \in 1..m : passedAt(b - m + j - 1, n, j)
    /\ \A a \in 1..Len(plLog) :
           (plLog[a].ev = "validate" /\ plLog[a].node >= 1) =>
               \A n \in 1..(plLog[a].node - 1) :
                   \E b \in 1..(a - 1) :
                       plLog[b].ev = "before" /\ plLog[b].node = n /\ plLog[b].res = "nil"
    /\ \A a \in 1..(Len(plLog) - 1) :
           (plLog[a].ev = "validate" /\ plLog[a].node >= 1 /\ plLog[a].res = "nil"
                /\ plLog[a].idx = Len(validatorsAt(plLog[a].node)))
               => (plLog[a + 1].ev = "before" /\ plLog[a + 1].node = plLog[a].node)

\* C33: the stages interleave per node: a node's validators run after the
\* Before of every earlier node and right before its own Before, and what they
\* stored is seen by that Before, by the later nodes and by the handler.
C33_ValidatorsThenBeforePerNode ==
    /\ interleavedPerNode
    /\ \A k \in 1..Len(plLog) : \A m \in (k + 1)..Len(plLog) :
           (plLog[k].ev = "validate" /\ plLog[k].res = "nil"
                /\ plLog[m].ev \in {"validate", "before", "handle"})
               => seesValueOf(k, m)

C33_Witness ==
    /\ Len(plRoute.nodes) = 2
    /\ \A n \in 1..2 : Len(plRoute.nodes[n].validators) = 1
    /\ plRoute.nodes[1].validators[1].kind = "KV"
    /\ plRoute.nodes[2].validators[1].kind = "SV"
    /\ \E m \in 1..Len(plLog) :
           /\ plLog[m].ev = "handle"
           /\ \E k \in 1..(m - 1) : passedAt(k, 1, 1) /\ seesValueOf(k, m)
           /\ \E k \in 1..(m - 1) : passedAt(k, 2, 1) /\ seesValueOf(k, m)

PlHooks == {"route.OnErr", "app.OnErr"}

\* entry f of the log is a Before that failed and returned the request it got
beforeFailedAt(f) ==
    /\ plLog[f].ev = "before"
    /\ plLog[f].res = "err"
    /\ plLog[f].back = plLog[f].given

\* the request handed to call m holds what the Before of entry b provided
seesBeforeOf(b, m) ==
    Valid(heap, [store |-> plLog[m].given], beforeType, beforeName(plLog[b].node))
        = found(beforeValue(plLog[b].node))

\* C36: nothing is unwound: when the Before of node k fails and returns the
\* request it was given, both error hooks get a request that still holds what
\* the route validators and the validators and Before hooks of the nodes
\* before k stored (a slot stored twice holds the later value).
C36_NothingUnwound ==
    \A f \in 1..Len(plLog) : \A h \in (f + 1)..Len(plLog) :
        (beforeFailedAt(f) /\ plLog[h].ev \in PlHooks) =>
            /\ \A k \in 1..(f - 1) :
                   (plLog[k].ev = "validate" /\ plLog[k].node < plLog[f].node)
                       => seesValueOf(k, h)
            /\ \A b \in 1..(f - 1) : plLog[b].ev = "before" => seesBeforeOf(b, h)
            /\ AppFrom(heap, [store |-> plLog[h].given])

C36_Witness ==
    /\ Len(plLog) = 6
    /\ passedAt(1, 0, 1)
    /\ passedAt(2, 1, 1)
    /\ plLog[3].ev = "before" /\ plLog[3].res = "nil"
    /\ beforeFailedAt(4) /\ plLog[4].node = 2
    /\ plLog[5].ev = "route.OnErr" /\ plLog[6].ev = "app.OnErr"
    /\ validatorsAt(0)[1].kind = "SV" /\ validatorsAt(1)[1].kind = "KSVOnly"
    /\ validatorsAt(0)[1].T # validatorsAt(1)[1].T
    /\ seesValueOf(1, 6) /\ seesValueOf(2, 5) /\ seesBeforeOf(3, 5)

\* entry k of the log is a validator whose Validate returned an error
validatorFailedAt(k) == plLog[k].ev = "validate" /\ plLog[k].res # "nil"

\* the request holds, by type or by key, the value of the validator of entry k
holdsValueOf(k, store) ==
    LET v == validatorAt(k)
        value == valueOf(v, plLog[k].node, plLog[k].idx)
        r == [store |-> store]
    IN  \/ Validated(heap, r, v.T) = found(value)
        \/ Valid(heap, r, v.T, v.name) = found(value)

\* C37: a failing validator writes nothing: whatever the adapter (SV, V, KV,
\* KSV, KSVOnly), when Validate returns an error the adapter returns the
\* request it was given, and the store the error hooks see is the one the
\* validator was given, with no entry by type or by key of that validator.
C37_FailingValidatorWritesNothing ==
    \A k \in 1..Len(plLog) :
        validatorFailedAt(k) =>
            /\ plLog[k].back = plLog[k].given
            /\ ~holdsValueOf(k, plReq)
            /\ \A h \in (k + 1)..Len(plLog) :
                   plLog[h].ev \in PlHooks =>
                       /\ plLog[h].given = plLog[k].given
                       /\ ~holdsValueOf(k, plLog[h].given)

C37_Witness ==
    /\ Len(plLog) = 6
    /\ passedAt(1, 0, 1) /\ validatorAt(1).kind = "V"
    /\ passedAt(2, 1, 1) /\ validatorAt(2).kind = "KV"
    /\ plLog[3].ev = "before"
    /\ validatorFailedAt(4) /\ validatorAt(4).kind = "KSV" /\ plLog[4].res = "err"
    /\ validatorAt(4).T = validatorAt(1).T
    /\ plLog[5].ev = "route.OnErr" /\ plLog[6].ev = "app.OnErr"
    /\ holdsValueOf(1, plLog[6].given)
    /\ ~holdsValueOf(4, plLog[6].given)

============================================================================
